---------------------------- MODULE Spec2Model ----------------------------
(***************************************************************************)
(* Model of the CompoundAtlas research-ingestion package:                  *)
(*   scorer.py  - compute_evidence_score and its six sub-scores            *)
(*   pubmed.py  - classify_study_type                                      *)
(*   ingest.py  - dedup keys, ingest_compound, upsert_studies,             *)
(*                update_compound_scores                                   *)
(*                                                                         *)
(* Conventions.                                                            *)
(*  - A Python Optional value is a sequence of length 0 (None) or 1.       *)
(*  - A Python str is a sequence of one-character strings, so that         *)
(*    strip(), lower() and the regular expressions act on characters.      *)
(*  - A float score is an integer number of thousandths of a point         *)
(*    (45.0 is 45000); the composite, a sum of score * weight with the     *)
(*    weights in hundredths, is in 1/100000 of a point.  Values handed     *)
(*    back by round(x, 1) are integer tenths (45.0 is 450).                *)
(*  - math.log and math.log10 are computed in fixed point from a base-2    *)
(*    logarithm with 12 fractional bits; a sub-score differs from the      *)
(*    float value by less than 0.01 point.                                 *)
(***************************************************************************)
EXTENDS Integers, Sequences, FiniteSets, TLC

VARIABLES
    clock_year,     \* the wall clock: what datetime.now().year answers
    studies,        \* scorer: the list handed to compute_evidence_score
    current_year,   \* scorer: current_year, as read by the latest call
    result,         \* scorer: what the latest call returned (or raised)
    freshness_result, \* scorer: outcome of the latest call that passed
                    \* a source_freshness argument
    cand,           \* make_study_dedup_key: the candidate it is called on
    cand_key,       \* make_study_dedup_key: the key returned, if called
    art,            \* classify_study_type: the article it is called on
    art_type,       \* classify_study_type: the category returned, if called
    db_studies,     \* table "Study": the rows in insertion order (id = index)
    db_links,       \* table "CompoundStudy": ids of the studies of the compound
    db_compound,    \* table "Compound": the row of the compound being ingested
    pc,             \* ingest_compound: "idle", "pubmed", "s2" or "write"
    dry_run,        \* ingest_compound: the dry_run argument of the run
    all_studies,    \* ingest_compound: candidates kept by the in-memory dedup
    all_keys,       \* the dedup_key computed for each entry of all_studies
    seen_ids,       \* ingest_compound: dedup keys seen in this run
    next_study,     \* upsert_studies: position of the loop over studies
    db_result,      \* upsert_studies: inserted / updated / linked
    study_id,       \* upsert_studies: id of the row of the latest upsert
    row_keys,       \* history: dedup keys of the candidates written to each row
    uuid_count,     \* uuid.uuid4() calls made for fallback keys
    fetched,        \* records the sources have returned so far
    s2_query,       \* ingest_compound: the s2.search attempts of the current
                    \* Semantic Scholar query and what came of them
    log,            \* history: the candidates the sources returned in this
                    \* run, what upsert_studies committed in it, the list
                    \* the previous complete run wrote, and whether every
                    \* database write so far went through
    clinicalPhase,  \* table "Compound": the clinicalPhase of the compound
    ct_response,    \* the trials ClinicalTrials.gov lists for the compound
    phase_result    \* update_phases: the entry of the compound in `results`

scoreVars == <<clock_year, studies, current_year, result, freshness_result>>
keyVars == <<cand, cand_key>>
classifyVars == <<art, art_type>>
dbVars == <<db_studies, db_links, db_compound, row_keys>>
runVars == <<pc, dry_run, all_studies, all_keys, seen_ids, next_study,
             db_result, study_id, uuid_count, fetched, s2_query, log>>
ingestVars == <<dbVars, runVars>>
phaseVars == <<clinicalPhase, ct_response, phase_result>>
vars == <<scoreVars, ingestVars, keyVars, classifyVars, phaseVars>>

-----------------------------------------------------------------------------
(* Bounds of the model *)

MaxStudies == 6
MaxYearsElapsed == 1
FirstYear == 2026
MaxFetched == 2

-----------------------------------------------------------------------------
(* Python values *)

None == <<>>
Some(v) == <<v>>
IsNone(o) == Len(o) = 0
Val(o) == o[1]

\* bool(x) of an Optional[int]: None and 0 are falsy
TruthyInt(o) == Len(o) = 1 /\ o[1] # 0

Min(a, b) == IF a <= b THEN a ELSE b
Max(a, b) == IF a >= b THEN a ELSE b

UpperCase == <<"A","B","C","D","E","F","G","H","I","J","K","L","M",
               "N","O","P","Q","R","S","T","U","V","W","X","Y","Z">>
LowerCase == <<"a","b","c","d","e","f","g","h","i","j","k","l","m",
               "n","o","p","q","r","s","t","u","v","w","x","y","z">>
Digits == {"0","1","2","3","4","5","6","7","8","9"}
Whitespace == {" ", "\t", "\n"}

ToSet(seq) == {seq[i] : i \in 1..Len(seq)}

\* str.lower() on one character
LowerChar(c) ==
    IF \E i \in 1..26 : UpperCase[i] = c
    THEN LowerCase[CHOOSE i \in 1..26 : UpperCase[i] = c]
    ELSE c

\* str.lower()
Lower(s) == [i \in 1..Len(s) |-> LowerChar(s[i])]

RECURSIVE LStrip(_)
LStrip(s) ==
    IF s # <<>> /\ Head(s) \in Whitespace THEN LStrip(Tail(s)) ELSE s

RECURSIVE RStrip(_)
RStrip(s) ==
    IF s # <<>> /\ s[Len(s)] \in Whitespace
    THEN RStrip(SubSeq(s, 1, Len(s) - 1)) ELSE s

\* str.strip()
Strip(s) == RStrip(LStrip(s))

-----------------------------------------------------------------------------
(* Fixed-point arithmetic standing for the float arithmetic of scorer.py *)

RECURSIVE FloorLog2(_)
FloorLog2(x) == IF x < 2 THEN 0 ELSE 1 + FloorLog2(x \div 2)

RECURSIVE FracBits(_, _, _)
\* the next k bits of log2 of the mantissa m, m in [2^14, 2^15)
FracBits(m, acc, k) ==
    IF k = 0 THEN acc
    ELSE LET sq == (m * m) \div (2^14)
         IN  IF sq >= 2^15
             THEN FracBits(sq \div 2, 2 * acc + 1, k - 1)
             ELSE FracBits(sq, 2 * acc, k - 1)

\* log2(x) in units of 1/4096, for x >= 1
Log2Fix(x) ==
    LET e == FloorLog2(x)
        m == IF e <= 14 THEN x * 2^(14 - e) ELSE x \div 2^(e - 14)
    IN  FracBits(m, e, 12)

\* 25 * math.log(x) in thousandths: 25 * ln 2 = 17.32868
Ln25(x) == (Log2Fix(x) * 17329) \div 4096

\* 20 * math.log(x) in thousandths: 20 * ln 2 = 13.86294
Ln20(x) == (Log2Fix(x) * 13863) \div 4096

\* 10 * math.log10(x) * 2 in thousandths: 20 / log2(10) = 6.0206 = 4096 / 680.33
Log10x20(x) == (Log2Fix(x) * 20000) \div 13607

\* round(v, 1) of a value v held in units of 1/(10*u): integer tenths,
\* ties to even as Python rounds an exactly representable tie
Round1(v, u) ==
    LET q == v \div u
        r == v % u
    IN  IF 2 * r > u \/ (2 * r = u /\ q % 2 = 1) THEN q + 1 ELSE q

-----------------------------------------------------------------------------
(* scorer.py *)

\* STUDY_TYPE_WEIGHTS with RCT entered as 2.0
STUDY_TYPE_WEIGHTS_RctLow(study_type) ==
    CASE study_type = "META_ANALYSIS"     -> 50
      [] study_type = "SYSTEMATIC_REVIEW" -> 45
      [] study_type = "RCT"               -> 20
      [] study_type = "IN_VITRO"          -> 5
      [] OTHER                            -> 20

\* STUDY_TYPE_WEIGHTS, in tenths; .get(study_type, 2.0) for any other type
STUDY_TYPE_WEIGHTS(study_type) ==
    CASE study_type = "META_ANALYSIS"     -> 50
      [] study_type = "SYSTEMATIC_REVIEW" -> 45
      [] study_type = "RCT"               -> 40
      [] study_type = "CONTROLLED_TRIAL"  -> 35
      [] study_type = "COHORT"            -> 30
      [] study_type = "CASE_CONTROL"      -> 25
      [] study_type = "CROSS_SECTIONAL"   -> 20
      [] study_type = "CASE_REPORT"       -> 10
      [] study_type = "REVIEW"            -> 25
      [] study_type = "ANIMAL"            -> 10
      [] study_type = "IN_VITRO"          -> 5
      [] study_type = "OTHER"             -> 20
      [] OTHER                            -> 20

FactorNames == <<"study_count", "study_quality", "sample_size",
                 "consistency", "replication", "recency">>

\* The weights of another scoring profile: study_count 0.36, recency 0.09
FACTOR_WEIGHTS_Profile36 ==
    [study_count   |-> 36,
     study_quality |-> 30,
     sample_size   |-> 10,
     consistency   |-> 10,
     replication   |-> 5,
     recency       |-> 9]

\* FACTOR_WEIGHTS, in hundredths
FACTOR_WEIGHTS ==
    [study_count   |-> 40,
     study_quality |-> 30,
     sample_size   |-> 10,
     consistency   |-> 10,
     replication   |-> 5,
     recency       |-> 5]

RECURSIVE SumSeq(_)
SumSeq(nums) == IF nums = <<>> THEN 0 ELSE Head(nums) + SumSeq(Tail(nums))

\* sum(1 for s in studies if s.study_type == study_type)
CountType(list, study_type) ==
    Cardinality({i \in 1..Len(list) : list[i].study_type = study_type})


_score_study_count(list) ==
    LET n == Len(list)
    IN  IF n = 0 THEN 0 ELSE Min(Ln25(n + 1), 100000)

\* _score_study_quality with a study of unknown sample size weighted 2.0
_score_study_quality_SizedOnly(list) ==
    IF list = <<>> THEN 0
    ELSE LET weighted_sum ==
                 SumSeq([i \in 1..Len(list) |->
                            IF TruthyInt(list[i].sample_size)
                            THEN STUDY_TYPE_WEIGHTS(list[i].study_type)
                            ELSE 20])
             total_weight == Len(list)
             normalized == (weighted_sum * 2000) \div total_weight
             meta_count == CountType(list, "META_ANALYSIS")
             meta_bonus == Min(15000, meta_count * 3000)
         IN  Min(normalized + meta_bonus, 100000)

_score_study_quality(list) ==
    IF list = <<>> THEN 0
    ELSE LET weighted_sum ==
                 SumSeq([i \in 1..Len(list) |->
                            STUDY_TYPE_WEIGHTS(list[i].study_type)])
             total_weight == Len(list)
             normalized == (weighted_sum * 2000) \div total_weight
             meta_count == CountType(list, "META_ANALYSIS")
             meta_bonus == Min(15000, meta_count * 3000)
         IN  Min(normalized + meta_bonus, 100000)

\* math.log10 raises ValueError ("math domain error") on an argument <= 0
_score_sample_size(list) ==
    LET total ==
            SumSeq([i \in 1..Len(list) |->
                       IF TruthyInt(list[i].sample_size)
                       THEN Val(list[i].sample_size) ELSE 0])
    IN  IF total = 0 THEN [raised |-> FALSE, value |-> 45000]
        ELSE IF total + 1 <= 0 THEN [raised |-> TRUE, value |-> 0]
        ELSE [raised |-> FALSE, value |-> Min(Log10x20(total + 1), 100000)]

_score_consistency(list) ==
    LET Directional(s) == /\ Len(s.effect_direction) = 1
                          /\ Val(s.effect_direction) # ""
                          /\ Val(s.effect_direction) # "MIXED"
        directions == {i \in 1..Len(list) : Directional(list[i])}
        n_directions == Cardinality(directions)
        dirs == {Val(list[i].effect_direction) : i \in directions}
        CountOf(d) ==
            Cardinality({i \in directions : Val(list[i].effect_direction) = d})
        most_common_count ==
            CHOOSE c \in {CountOf(d) : d \in dirs} :
                \A d \in dirs : CountOf(d) <= c
        n_sig == Cardinality({i \in 1..Len(list) :
                                 list[i].statistically_significant = Some(TRUE)})
    IN  IF n_directions = 0 THEN 55000
        ELSE Min((most_common_count * 70000) \div n_directions
                    + (n_sig * 30000) \div Len(list), 100000)

\* _score_replication without the default for an empty institution set
_score_replication_NoDefault(list) ==
    LET all_institutions ==
            UNION {{Strip(Lower(inst)) : inst \in ToSet(list[i].authors_institutions)} :
                      i \in 1..Len(list)}
        n_groups == Cardinality(all_institutions)
    IN  Min(Ln20(n_groups + 1) + 20000, 100000)

_score_replication(list) ==
    LET all_institutions ==
            UNION {{Strip(Lower(inst)) : inst \in ToSet(list[i].authors_institutions)} :
                      i \in 1..Len(list)}
        n_groups == Cardinality(all_institutions)
    IN  IF n_groups = 0 THEN 40000
        ELSE Min(Ln20(n_groups + 1) + 20000, 100000)

\* a recency score of three buckets: 45 / 35 / 20 for 2 / 5 / 8 years
_score_recency_Buckets258(list, year_now) ==
    LET years == {i \in 1..Len(list) : TruthyInt(list[i].year)}
        n_years == Cardinality(years)
        Within(age) ==
            Cardinality({i \in years : year_now - Val(list[i].year) <= age})
    IN  IF n_years = 0 THEN 45000
        ELSE Min((Within(2) * 45000) \div n_years
                    + (Within(5) * 35000) \div n_years
                    + (Within(8) * 20000) \div n_years, 100000)

\* _score_recency with the 5-year comparison turned round
_score_recency_OlderCounts(list, year_now) ==
    LET years == {i \in 1..Len(list) : TruthyInt(list[i].year)}
        n_years == Cardinality(years)
        recent_count ==
            Cardinality({i \in years : year_now - Val(list[i].year) >= 5})
        very_recent ==
            Cardinality({i \in years : year_now - Val(list[i].year) <= 3})
    IN  IF n_years = 0 THEN 45000
        ELSE Min((recent_count * 50000) \div n_years
                    + (very_recent * 40000) \div n_years + 10000, 100000)

\* datetime.now().year is read inside the function: year_now is the clock
_score_recency(list, year_now) ==
    LET years == {i \in 1..Len(list) : TruthyInt(list[i].year)}
        n_years == Cardinality(years)
        recent_count ==
            Cardinality({i \in years : year_now - Val(list[i].year) <= 5})
        very_recent ==
            Cardinality({i \in years : year_now - Val(list[i].year) <= 3})
    IN  IF n_years = 0 THEN 45000
        ELSE Min((recent_count * 50000) \div n_years
                    + (very_recent * 40000) \div n_years + 10000, 100000)

\* _determine_level with the study-type condition of "B" left out
_determine_level_ScoreOnly(composite, list) ==
    LET has_meta == \E i \in 1..Len(list) : list[i].study_type = "META_ANALYSIS"
        rct_count == CountType(list, "RCT")
    IN  IF composite >= 7500000 /\ has_meta /\ rct_count >= 3 THEN "A"
        ELSE IF composite >= 5000000 THEN "B"
        ELSE IF composite >= 2500000 THEN "C"
        ELSE "D"

\* composite is in 1/100000 point: 75 is 7500000
_determine_level(composite, list) ==
    LET has_meta == \E i \in 1..Len(list) : list[i].study_type = "META_ANALYSIS"
        has_rct == \E i \in 1..Len(list) : list[i].study_type = "RCT"
        rct_count == CountType(list, "RCT")
    IN  IF composite >= 7500000 /\ has_meta /\ rct_count >= 3 THEN "A"
        ELSE IF composite >= 5000000 /\ (has_rct \/ has_meta) THEN "B"
        ELSE IF composite >= 2500000 THEN "C"
        ELSE "D"

StudyInput(study_type, sample_size, year, direction, significant, institutions) ==
    [study_type                |-> study_type,
     sample_size               |-> sample_size,
     year                      |-> year,
     effect_direction          |-> direction,
     statistically_significant |-> significant,
     authors_institutions      |-> institutions]

\* the six sub-scores before rounding, in thousandths
Factors(list, year_now) ==
    [study_count   |-> _score_study_count(list),
     study_quality |-> _score_study_quality(list),
     sample_size   |-> _score_sample_size(list).value,
     consistency   |-> _score_consistency(list),
     replication   |-> _score_replication(list),
     recency       |-> _score_recency(list, year_now)]

\* sum(factors[k] * FACTOR_WEIGHTS[k] for k in FACTOR_WEIGHTS)
Composite(factors) ==
    SumSeq([i \in 1..Len(FactorNames) |->
               factors[FactorNames[i]] * FACTOR_WEIGHTS[FactorNames[i]]])

ZeroResult_LevelC ==
    [status              |-> "returned",
     composite           |-> 0,
     factors             |-> [k \in ToSet(FactorNames) |-> 0],
     evidence_level      |-> "C",
     study_count         |-> 0,
     meta_analysis_count |-> 0]

ZeroResult ==
    [status              |-> "returned",
     composite           |-> 0,
     factors             |-> [k \in ToSet(FactorNames) |-> 0],
     evidence_level      |-> "D",
     study_count         |-> 0,
     meta_analysis_count |-> 0]

\* The call either returns the result dict or propagates ValueError.
compute_evidence_score(list, year_now) ==
    IF list = <<>> THEN ZeroResult
    ELSE IF _score_sample_size(list).raised
    THEN [status |-> "raised", error |-> "ValueError"]
    ELSE LET factors == Factors(list, year_now)
             composite == Composite(factors)
         IN  [status              |-> "returned",
              composite           |-> Round1(composite, 10000),
              factors             |-> [k \in ToSet(FactorNames) |->
                                          Round1(factors[k], 100)],
              evidence_level      |-> _determine_level(composite, list),
              study_count         |-> Len(list),
              meta_analysis_count |-> CountType(list, "META_ANALYSIS")]

-----------------------------------------------------------------------------
(* Character strings *)

StartsWith(s, prefix) ==
    Len(s) >= Len(prefix) /\ SubSeq(s, 1, Len(prefix)) = prefix

DropPrefix(s, n) == SubSeq(s, n + 1, Len(s))

\* `sub in s`
Contains(s, sub) ==
    \E i \in 0..(Len(s) - Len(sub)) : SubSeq(s, i + 1, i + Len(sub)) = sub

\* keep the characters of s that satisfy Keep
RECURSIVE Filter(_, _)
Filter(s, keep) ==
    IF s = <<>> THEN <<>>
    ELSE IF Head(s) \in keep THEN <<Head(s)>> \o Filter(Tail(s), keep)
    ELSE Filter(Tail(s), keep)

\* re.sub(r"\s+", " ", s)
RECURSIVE CollapseWhitespace(_)
CollapseWhitespace(s) ==
    IF s = <<>> THEN <<>>
    ELSE IF Head(s) \in Whitespace
    THEN <<" ">> \o CollapseWhitespace(LStrip(s))
    ELSE <<Head(s)>> \o CollapseWhitespace(Tail(s))

\* bool(x) of an Optional[str]: None and "" are falsy
TruthyStr(o) == Len(o) = 1 /\ o[1] # <<>>

\* `x or ""`
OrEmpty(o) == IF Len(o) = 1 THEN o[1] ELSE <<>>

\* `x or None`
OrNone(o) == IF TruthyStr(o) THEN o ELSE None

-----------------------------------------------------------------------------
(* pubmed.py: classify_study_type *)

\* STUDY_TYPE_MAP.get(tag): None for a tag that is not in the table
STUDY_TYPE_MAP(tag) ==
    CASE tag = "Meta-Analysis"               -> Some("META_ANALYSIS")
      [] tag = "Systematic Review"           -> Some("SYSTEMATIC_REVIEW")
      [] tag = "Randomized Controlled Trial" -> Some("RCT")
      [] tag = "Controlled Clinical Trial"   -> Some("CONTROLLED_TRIAL")
      [] tag = "Clinical Trial"              -> Some("CONTROLLED_TRIAL")
      [] tag = "Clinical Trial, Phase I"     -> Some("CONTROLLED_TRIAL")
      [] tag = "Clinical Trial, Phase II"    -> Some("CONTROLLED_TRIAL")
      [] tag = "Clinical Trial, Phase III"   -> Some("RCT")
      [] tag = "Clinical Trial, Phase IV"    -> Some("RCT")
      [] tag = "Cohort Studies"              -> Some("COHORT")
      [] tag = "Observational Study"         -> Some("COHORT")
      [] tag = "Case-Control Studies"        -> Some("CASE_CONTROL")
      [] tag = "Cross-Sectional Studies"     -> Some("CROSS_SECTIONAL")
      [] tag = "Case Reports"                -> Some("CASE_REPORT")
      [] tag = "Review"                      -> Some("REVIEW")
      [] OTHER                               -> None

\* a ranking with case reports on top
priority_CaseReportFirst ==
    <<"CASE_REPORT", "META_ANALYSIS", "SYSTEMATIC_REVIEW", "RCT",
      "CONTROLLED_TRIAL", "COHORT", "CASE_CONTROL", "CROSS_SECTIONAL", "REVIEW">>

priority ==
    <<"META_ANALYSIS", "SYSTEMATIC_REVIEW", "RCT", "CONTROLLED_TRIAL", "COHORT",
      "CASE_CONTROL", "CROSS_SECTIONAL", "CASE_REPORT", "REVIEW">>

KwMetaHyphen == <<"m","e","t","a","-","a","n","a","l","y","s","i","s">>
KwMetaSpace == <<"m","e","t","a"," ","a","n","a","l","y","s","i","s">>
KwRandomized == <<"r","a","n","d","o","m","i","z","e","d">>
KwControlled == <<"c","o","n","t","r","o","l","l","e","d">>
KwSystematicReview == <<"s","y","s","t","e","m","a","t","i","c"," ","r","e","v","i","e","w">>
KwAnimal == <<"a","n","i","m","a","l">>
KwMice == <<"m","i","c","e">>
KwRats == <<"r","a","t","s">>
KwInVitro == <<"i","n"," ","v","i","t","r","o">>
KwCellCulture == <<"c","e","l","l"," ","c","u","l","t","u","r","e">>

\* a variant that scans the abstract of a tagged article as well
classify_study_type_AbstractToo(article) ==
    LET tags == ToSet(article.publication_types) \cup ToSet(article.mesh_terms)
        tagged == {Val(STUDY_TYPE_MAP(tag)) :
                      tag \in {x \in tags : STUDY_TYPE_MAP(x) # None}}
        abstract_lower == Lower(article.abstract)
        from_abstract ==
            IF Contains(abstract_lower, KwMetaHyphen)
                  \/ Contains(abstract_lower, KwMetaSpace)
            THEN {"META_ANALYSIS"}
            ELSE IF Contains(abstract_lower, KwRandomized)
                       /\ Contains(abstract_lower, KwControlled)
            THEN {"RCT"}
            ELSE IF Contains(abstract_lower, KwSystematicReview)
            THEN {"SYSTEMATIC_REVIEW"}
            ELSE IF Contains(abstract_lower, KwAnimal)
                       \/ Contains(abstract_lower, KwMice)
                       \/ Contains(abstract_lower, KwRats)
            THEN {"ANIMAL"}
            ELSE IF Contains(abstract_lower, KwInVitro)
                       \/ Contains(abstract_lower, KwCellCulture)
            THEN {"IN_VITRO"}
            ELSE {}
        found_types == tagged \cup from_abstract
        ranked == {i \in 1..Len(priority) : priority[i] \in found_types}
    IN  IF ranked # {}
        THEN priority[CHOOSE i \in ranked : \A j \in ranked : i <= j]
        ELSE IF "ANIMAL" \in found_types THEN "ANIMAL"
        ELSE IF "IN_VITRO" \in found_types THEN "IN_VITRO"
        ELSE "OTHER"

\* a variant that looks for "systematic review" before "randomized"
classify_study_type_ReviewFirst(article) ==
    LET tags == ToSet(article.publication_types) \cup ToSet(article.mesh_terms)
        tagged == {Val(STUDY_TYPE_MAP(tag)) :
                      tag \in {x \in tags : STUDY_TYPE_MAP(x) # None}}
        abstract_lower == Lower(article.abstract)
        from_abstract ==
            IF Contains(abstract_lower, KwMetaHyphen)
                  \/ Contains(abstract_lower, KwMetaSpace)
            THEN {"META_ANALYSIS"}
            ELSE IF Contains(abstract_lower, KwSystematicReview)
            THEN {"SYSTEMATIC_REVIEW"}
            ELSE IF Contains(abstract_lower, KwRandomized)
                       /\ Contains(abstract_lower, KwControlled)
            THEN {"RCT"}
            ELSE IF Contains(abstract_lower, KwAnimal)
                       \/ Contains(abstract_lower, KwMice)
                       \/ Contains(abstract_lower, KwRats)
            THEN {"ANIMAL"}
            ELSE IF Contains(abstract_lower, KwInVitro)
                       \/ Contains(abstract_lower, KwCellCulture)
            THEN {"IN_VITRO"}
            ELSE {}
        found_types == IF tagged = {} THEN from_abstract ELSE tagged
        ranked == {i \in 1..Len(priority) : priority[i] \in found_types}
    IN  IF ranked # {}
        THEN priority[CHOOSE i \in ranked : \A j \in ranked : i <= j]
        ELSE IF "ANIMAL" \in found_types THEN "ANIMAL"
        ELSE IF "IN_VITRO" \in found_types THEN "IN_VITRO"
        ELSE "OTHER"

\* classify_study_type(article)
classify_study_type(article) ==
    LET tags == ToSet(article.publication_types) \cup ToSet(article.mesh_terms)
        tagged == {Val(STUDY_TYPE_MAP(tag)) :
                      tag \in {x \in tags : STUDY_TYPE_MAP(x) # None}}
        abstract_lower == Lower(article.abstract)
        from_abstract ==
            IF Contains(abstract_lower, KwMetaHyphen)
                  \/ Contains(abstract_lower, KwMetaSpace)
            THEN {"META_ANALYSIS"}
            ELSE IF Contains(abstract_lower, KwRandomized)
                       /\ Contains(abstract_lower, KwControlled)
            THEN {"RCT"}
            ELSE IF Contains(abstract_lower, KwSystematicReview)
            THEN {"SYSTEMATIC_REVIEW"}
            ELSE IF Contains(abstract_lower, KwAnimal)
                       \/ Contains(abstract_lower, KwMice)
                       \/ Contains(abstract_lower, KwRats)
            THEN {"ANIMAL"}
            ELSE IF Contains(abstract_lower, KwInVitro)
                       \/ Contains(abstract_lower, KwCellCulture)
            THEN {"IN_VITRO"}
            ELSE {}
        found_types == IF tagged = {} THEN from_abstract ELSE tagged
        ranked == {i \in 1..Len(priority) : priority[i] \in found_types}
    IN  IF ranked # {}
        THEN priority[CHOOSE i \in ranked : \A j \in ranked : i <= j]
        ELSE IF "ANIMAL" \in found_types THEN "ANIMAL"
        ELSE IF "IN_VITRO" \in found_types THEN "IN_VITRO"
        ELSE "OTHER"

-----------------------------------------------------------------------------
(* ingest.py: normalisation and dedup keys *)

\* STUDY_TYPE_TO_EVIDENCE_LEVEL.get(study_type, "D")
STUDY_TYPE_TO_EVIDENCE_LEVEL(study_type) ==
    CASE study_type \in {"META_ANALYSIS", "SYSTEMATIC_REVIEW"} -> "A"
      [] study_type \in {"RCT", "CONTROLLED_TRIAL"} -> "B"
      [] study_type \in {"COHORT", "CASE_CONTROL", "CROSS_SECTIONAL", "REVIEW"} -> "C"
      [] OTHER -> "D"

\* a variant that knows the doi.org resolver only
StripDoiUrl_NoDx(s) ==
    LET scheme == IF StartsWith(s, <<"h","t","t","p","s",":","/","/">>) THEN 8
                  ELSE IF StartsWith(s, <<"h","t","t","p",":","/","/">>) THEN 7
                  ELSE 0
        rest == DropPrefix(s, scheme)
        host == IF StartsWith(rest, <<"d","o","i",".","o","r","g","/">>) THEN 8
                ELSE 0
    IN  IF scheme > 0 /\ host > 0 THEN DropPrefix(rest, host) ELSE s

\* re.sub(r"^https?://(dx\.)?doi\.org/", "", s)
StripDoiUrl(s) ==
    LET scheme == IF StartsWith(s, <<"h","t","t","p","s",":","/","/">>) THEN 8
                  ELSE IF StartsWith(s, <<"h","t","t","p",":","/","/">>) THEN 7
                  ELSE 0
        rest == DropPrefix(s, scheme)
        host == IF StartsWith(rest, <<"d","x",".","d","o","i",".","o","r","g","/">>) THEN 11
                ELSE IF StartsWith(rest, <<"d","o","i",".","o","r","g","/">>) THEN 8
                ELSE 0
    IN  IF scheme > 0 /\ host > 0 THEN DropPrefix(rest, host) ELSE s

\* normalize_doi(doi): Optional[str] -> Optional[str]
normalize_doi(doi) ==
    IF ~TruthyStr(doi) THEN None
    ELSE LET normalized == StripDoiUrl(Lower(Strip(Val(doi))))
         IN  IF normalized = <<>> THEN None ELSE Some(normalized)

TitleChars == ToSet(LowerCase) \cup Digits \cup {" "}

\* normalize_title(title): Optional[str] -> str
normalize_title(title) ==
    IF ~TruthyStr(title) THEN <<>>
    ELSE Filter(CollapseWhitespace(Lower(Strip(Val(title)))), TitleChars)

\* a variant that looks at the PMID before the DOI
make_study_dedup_key_PmidFirst(study, token) ==
    LET doi == normalize_doi(study.doi)
        pmid == Strip(OrEmpty(study.pmid))
        s2_id == Strip(OrEmpty(study.s2_id))
        title == normalize_title(study.title)
        year == IF TruthyInt(study.year) THEN study.year ELSE None
    IN  IF pmid # <<>> THEN <<"pmid", pmid>>
        ELSE IF TruthyStr(doi) THEN <<"doi", Val(doi)>>
        ELSE IF s2_id # <<>> THEN <<"s2", s2_id>>
        ELSE IF title # <<>> THEN <<"title", title, year>>
        ELSE <<"fallback", token>>

\* make_study_dedup_key(study); token is the uuid4 drawn when it is needed.
\* "doi:<d>", "pmid:<p>", "s2:<s>", "title:<t>|year:<y>", "fallback:<uuid>"
\* are kept as tuples: the prefixes differ and a normalized title holds no "|".
make_study_dedup_key(study, token) ==
    LET doi == normalize_doi(study.doi)
        pmid == Strip(OrEmpty(study.pmid))
        s2_id == Strip(OrEmpty(study.s2_id))
        title == normalize_title(study.title)
        year == IF TruthyInt(study.year) THEN study.year ELSE None
    IN  IF TruthyStr(doi) THEN <<"doi", Val(doi)>>
        ELSE IF pmid # <<>> THEN <<"pmid", pmid>>
        ELSE IF s2_id # <<>> THEN <<"s2", s2_id>>
        ELSE IF title # <<>> THEN <<"title", title, year>>
        ELSE <<"fallback", token>>

-----------------------------------------------------------------------------
(* ingest.py: the Study table and upsert_studies *)

\* title[:1000]
TITLE_MAX == 1000

SqlTitleChars == ToSet(LowerCase) \cup ToSet(UpperCase) \cup Digits \cup {" "}

\* lower(regexp_replace(title, '[^a-zA-Z0-9 ]', '', 'g'))
SqlTitle(title) == Lower(Filter(title, SqlTitleChars))

\* bool(x) of an Optional value held as one token: None and "" are falsy
TruthyAtom(o) == Len(o) = 1 /\ o[1] # ""

\* The WHERE clause of the lookup, for one row.  A comparison with a NULL
\* parameter or a NULL column is not true.
RowMatches(row, pmid, doi, s2_id, year, normalized_title) ==
    \/ row.pmid # None /\ pmid # None /\ row.pmid = pmid
    \/ row.doi # None /\ doi # None /\ Lower(Val(row.doi)) = Val(doi)
    \/ /\ row.semanticScholarId # None
       /\ s2_id # None
       /\ row.semanticScholarId = s2_id
    \/ /\ row.year # None
       /\ year # None
       /\ row.year = year
       /\ SqlTitle(row.title) = normalized_title

\* COALESCE(a, b)
COALESCE(a, b) == IF a # None THEN a ELSE b

\* The parameters upsert_studies derives from one candidate (lines 149-161).
UpsertParams(study) ==
    LET title == SubSeq(OrEmpty(study.title), 1,
                        Min(Len(OrEmpty(study.title)), TITLE_MAX))
    IN  [pmid             |-> study.pmid,
         doi              |-> normalize_doi(study.doi),
         s2_id            |-> study.s2_id,
         study_type       |-> study.study_type,
         evidence_level   |-> STUDY_TYPE_TO_EVIDENCE_LEVEL(study.study_type),
         title            |-> title,
         abstract         |-> OrEmpty(study.abstract),
         authors          |-> study.authors,
         journal          |-> IF TruthyAtom(study.journal) THEN study.journal ELSE None,
         year             |-> study.year,
         is_open_access   |-> study.is_open_access,
         full_text_url    |-> IF TruthyAtom(study.open_access_url)
                              THEN study.open_access_url ELSE None,
         tldr             |-> IF TruthyAtom(study.tldr) THEN study.tldr ELSE None,
         normalized_title |-> normalize_title(Some(title))]

\* SELECT id FROM "Study" WHERE ... : the ids of the rows that match
ExistingIds(rows, p) ==
    {id \in 1..Len(rows) :
        RowMatches(rows[id], p.pmid, p.doi, p.s2_id, p.year, p.normalized_title)}

\* UPDATE "Study" SET ... WHERE id = study_id
UpdatedRow(row, p) ==
    [pmid              |-> COALESCE(row.pmid, p.pmid),
     doi               |-> COALESCE(row.doi, p.doi),
     semanticScholarId |-> COALESCE(row.semanticScholarId, p.s2_id),
     title             |-> p.title,
     abstract          |-> p.abstract,
     authors           |-> p.authors,
     journal           |-> COALESCE(p.journal, row.journal),
     year              |-> COALESCE(p.year, row.year),
     studyType         |-> p.study_type,
     evidenceLevel     |-> p.evidence_level,
     isOpenAccess      |-> p.is_open_access,
     fullTextUrl       |-> COALESCE(p.full_text_url, row.fullTextUrl),
     tldr              |-> COALESCE(p.tldr, row.tldr)]

\* INSERT INTO "Study" (...) VALUES (...)
InsertedRow(p) ==
    [pmid              |-> p.pmid,
     doi               |-> p.doi,
     semanticScholarId |-> p.s2_id,
     title             |-> p.title,
     abstract          |-> p.abstract,
     authors           |-> p.authors,
     journal           |-> p.journal,
     year              |-> p.year,
     studyType         |-> p.study_type,
     evidenceLevel     |-> p.evidence_level,
     isOpenAccess      |-> p.is_open_access,
     fullTextUrl       |-> p.full_text_url,
     tldr              |-> p.tldr]

-----------------------------------------------------------------------------
(* What the two sources return *)

PubMedArticle(pmid, title, abstract, authors, journal, year, doi, mesh, pub_types) ==
    [pmid              |-> pmid,
     title             |-> title,
     abstract          |-> abstract,
     authors           |-> authors,
     journal           |-> journal,
     year              |-> year,
     doi               |-> doi,
     mesh_terms        |-> mesh,
     publication_types |-> pub_types]

S2Paper(paper_id, title, abstract, authors, year, venue, doi, pubmed_id, oa, oa_url, tldr) ==
    [paper_id        |-> paper_id,
     title           |-> title,
     abstract        |-> abstract,
     authors         |-> authors,
     year            |-> year,
     venue           |-> venue,
     doi             |-> doi,
     external_pubmed |-> pubmed_id,
     is_open_access  |-> oa,
     open_access_url |-> oa_url,
     tldr            |-> tldr]

\* PubMed records: a trial known by its PMID alone; a record with no PMID,
\* no DOI and a title of punctuation; a meta-analysis with a DOI.
PubMedPool ==
    << PubMedArticle(<<"1">>, <<"A","b">>, <<"R","a","n","d","o","m","i","z","e","d",","," ","c","o","n","t","r","o","l","l","e","d",".">>, <<"Kim">>, "J Nutr",
                     Some(FirstYear - 1), None, <<>>,
                     <<"Randomized Controlled Trial">>),
       PubMedArticle(<<>>, <<"?">>, <<>>, <<>>, "", None, None, <<>>, <<>>),
       PubMedArticle(<<"2">>, <<"A","b">>, <<"P","o","o","l","e","d",".">>, <<"Lee">>, "",
                     Some(FirstYear - 2), Some(<<" ","1","0",".","1","/","A">>), <<"Humans">>,
                     <<"Meta-Analysis", "Case Reports">>) >>

\* Semantic Scholar records: a paper with the DOI of the meta-analysis and
\* the PMID of the trial, without abstract or year; a paper known by title
\* and year alone, the title and year of the trial; a paper known by its
\* title alone.
S2Pool ==
    << S2Paper(<<"s","1">>, Some(<<"A","b",".">>), <<>>, <<"Kim">>, None, "",
               Some(<<"h","t","t","p","s",":","/","/","d","o","i",".","o","r","g","/","1","0",".","1","/","A">>), Some(<<"1">>), TRUE,
               Some("http://oa"), Some("tldr")),
       S2Paper(<<>>, Some(<<" ","a","b">>), <<"I","n"," ","v","i","t","r","o">>, <<>>, Some(FirstYear - 1), "",
               None, None, FALSE, None, None),
       S2Paper(<<>>, Some(<<"C","d">>), <<>>, <<>>, None, "",
               None, None, FALSE, None, None) >>

\* ingest_compound, lines 380-390
PubMedCandidate(article) ==
    [source          |-> "pubmed",
     pmid            |-> Some(article.pmid),
     doi             |-> article.doi,
     s2_id           |-> None,
     title           |-> Some(article.title),
     abstract        |-> Some(article.abstract),
     authors         |-> article.authors,
     journal         |-> Some(article.journal),
     year            |-> article.year,
     is_open_access  |-> FALSE,
     open_access_url |-> None,
     tldr            |-> None,
     study_type      |-> classify_study_type(article)]

\* ingest_compound, lines 421-435
S2Candidate(paper) ==
    [source          |-> "semantic_scholar",
     pmid            |-> paper.external_pubmed,
     doi             |-> paper.doi,
     s2_id           |-> Some(paper.paper_id),
     title           |-> paper.title,
     abstract        |-> Some(paper.abstract),
     authors         |-> paper.authors,
     journal         |-> Some(paper.venue),
     year            |-> paper.year,
     is_open_access  |-> paper.is_open_access,
     open_access_url |-> paper.open_access_url,
     tldr            |-> paper.tldr,
     study_type      |-> "OTHER"]

\* ingest_compound, lines 444-454
StudyInputs(candidates) ==
    [i \in 1..Len(candidates) |->
        StudyInput(candidates[i].study_type, None, candidates[i].year,
                   None, None, <<>>)]

-----------------------------------------------------------------------------
(* clinical_trials.py, and update_phases of ingest.py *)

\* PHASE_MAP.get(raw): the display label of an API phase value, or None
PHASE_MAP(raw) ==
    CASE raw = "EARLY_PHASE1" -> Some("Phase I")
      [] raw = "PHASE1"       -> Some("Phase I")
      [] raw = "PHASE2"       -> Some("Phase II")
      [] raw = "PHASE3"       -> Some("Phase III")
      [] raw = "PHASE4"       -> Some("Approved")
      [] OTHER                -> None

PHASE_HIERARCHY ==
    <<"Preclinical", "Phase I", "Phase II", "Phase III", "Approved">>

ACTIVE_STATUSES ==
    {"RECRUITING", "ACTIVE_NOT_RECRUITING", "COMPLETED",
     "ENROLLING_BY_INVITATION"}

\* PHASE_HIERARCHY.index(phase), or -1 when the label is not in the list
phase_rank(phase) ==
    IF \E i \in 1..Len(PHASE_HIERARCHY) : PHASE_HIERARCHY[i] = phase
    THEN (CHOOSE i \in 1..Len(PHASE_HIERARCHY) : PHASE_HIERARCHY[i] = phase) - 1
    ELSE -1

\* the loop over the mapped phases of one trial: the first of highest rank
RECURSIVE HighestPhase(_, _)
HighestPhase(raw_phases, highest) ==
    IF raw_phases = <<>> THEN highest
    ELSE LET mapped == PHASE_MAP(Head(raw_phases))
         IN  IF mapped # None
                /\ (highest = None
                      \/ phase_rank(Val(mapped)) > phase_rank(Val(highest)))
             THEN HighestPhase(Tail(raw_phases), mapped)
             ELSE HighestPhase(Tail(raw_phases), highest)

\* ClinicalTrialsClient.search(search_name): the trials of the response
\* that the name finds and whose status is active or completed
RECURSIVE search(_, _)
search(response, search_name) ==
    IF response = <<>> THEN <<>>
    ELSE LET study == Head(response)
         IN  IF study.found_by = search_name /\ study.status \in ACTIVE_STATUSES
             THEN <<[status        |-> study.status,
                     highest_phase |-> HighestPhase(study.phases, None)]>>
                      \o search(Tail(response), search_name)
             ELSE search(Tail(response), search_name)

\* the loop over the trials of one search: best_phase so far -> best_phase
RECURSIVE BestOfTrials(_, _)
BestOfTrials(trials, best_phase) ==
    IF trials = <<>> THEN best_phase
    ELSE LET trial == Head(trials)
         IN  IF trial.highest_phase # None
                /\ (best_phase = None
                      \/ phase_rank(Val(trial.highest_phase))
                            > phase_rank(Val(best_phase)))
             THEN BestOfTrials(Tail(trials), trial.highest_phase)
             ELSE BestOfTrials(Tail(trials), best_phase)

\* the loop over search_names; a search that raises is skipped
RECURSIVE BestOfSearches(_, _, _, _)
BestOfSearches(response, search_names, failing, best_phase) ==
    IF search_names = <<>> THEN best_phase
    ELSE IF Head(search_names) \in failing
    THEN BestOfSearches(response, Tail(search_names), failing, best_phase)
    ELSE BestOfSearches(response, Tail(search_names), failing,
                        BestOfTrials(search(response, Head(search_names)),
                                     best_phase))

\* a rule that takes whatever phase the trials show
should_update_AnyTrial(best_phase, current_phase) ==
    best_phase # None /\ best_phase # current_phase

\* "Only upgrade phases, never downgrade"
should_update(best_phase, current_phase) ==
    /\ best_phase # None
    /\ \/ current_phase = None
       \/ phase_rank(Val(best_phase)) > phase_rank(Val(current_phase))

\* the compound as seeded, no trial registered, update_phases not yet run
PhaseInit(seed) ==
    /\ clinicalPhase = seed
    /\ ct_response = <<>>
    /\ phase_result = [status |-> "none"]

-----------------------------------------------------------------------------
(* The scorer under its callers: a list is built, scored, and scored again  *)
(* as the calendar advances.                                               *)

\* The studies the callers choose from.  Years are relative to the first
\* year of the run; 0 and negative numbers are the malformed values the
\* engine does not validate.
StudyPool ==
    << StudyInput("META_ANALYSIS", Some(40000), Some(FirstYear - 1),
                  Some("INCREASE"), Some(TRUE), << <<"L","a","b"," ","A">> >>),
       StudyInput("IN_VITRO", None, Some(FirstYear - 25),
                  Some("MIXED"), None, << <<" ","l","a","b"," ","a"," ">> >>),
       StudyInput("PREPRINT", Some(-5), Some(FirstYear + 4),
                  Some("DECREASE"), Some(FALSE), << <<"L","a","b"," ","X">> >>),
       StudyInput("OTHER", Some(0), Some(0), None, None, <<>>),
       StudyInput("SYSTEMATIC_REVIEW", Some(40000), Some(FirstYear - 2),
                  Some("INCREASE"), Some(TRUE), << <<"L","a","b"," ","A">> >>),
       StudyInput("RCT", None, None, None, None, <<>>),
       StudyInput("RCT", Some(40000), Some(FirstYear - 5),
                  Some("INCREASE"), Some(TRUE), << <<"L","a","b"," ","B">> >>),
       StudyInput("CASE_REPORT", Some(30), Some(FirstYear - 2),
                  Some("INCREASE"), Some(TRUE), << <<"L","a","b"," ","C">> >>) >>

NoResult == [status |-> "none"]

\* the articles ingested for other compounds at most
MaxOtherStudies == 2

ZeroCounts == [inserted |-> 0, updated |-> 0, linked |-> 0]

\* no Semantic Scholar query has been started
NoQuery == [attempts |-> 0, first_error |-> "none", outcome |-> "none"]

\* No run in progress, and the database as seeded: the compound row is
\* there, its score columns not yet written, and no study is stored.
IngestInit ==
    /\ db_studies = <<>>
    /\ db_links = {}
    /\ db_compound = [evidenceScore |-> None, studyCount |-> None,
                      metaAnalysisCount |-> None, scoreBreakdown |-> None]
    /\ row_keys = <<>>
    /\ pc = "idle"
    /\ dry_run = FALSE
    /\ all_studies = <<>>
    /\ all_keys = <<>>
    /\ seen_ids = {}
    /\ next_study = 1
    /\ db_result = ZeroCounts
    /\ study_id = None
    /\ uuid_count = 0
    /\ fetched = 0
    /\ s2_query = NoQuery
    /\ log = [stream       |-> <<>>,
              committed    |-> ZeroCounts,
              failed       |-> FALSE,
              prev_studies |-> None,
              clean        |-> TRUE,
              others       |-> 0]

\* a candidate that carries nothing, and no key computed
KeyInit ==
    /\ cand = [doi |-> None, pmid |-> None, s2_id |-> None, title |-> None,
               year |-> None]
    /\ cand_key = None

\* an article without tags or abstract, and no category computed
ClassifyInit ==
    /\ art = [publication_types |-> <<>>, mesh_terms |-> <<>>,
              abstract |-> <<>>]
    /\ art_type = None

ScoreInit ==
    /\ clock_year = FirstYear
    /\ studies = <<>>
    /\ current_year = FirstYear
    /\ result = NoResult
    /\ freshness_result = NoResult
    /\ IngestInit
    /\ KeyInit
    /\ ClassifyInit
    /\ PhaseInit(None)

\* The caller appends a study to the list it will score.  Lists are built
\* in pool order: the scorer reads its list only through sums, counts and
\* sets, so every multiset of pool studies is covered.
AddStudy(k) ==
    /\ Len(studies) < MaxStudies
    /\ \A i \in 1..Len(studies) :
          \E j \in 1..k : StudyPool[j] = studies[i]
    /\ studies' = Append(studies, StudyPool[k])
    /\ result' = NoResult
    /\ freshness_result' = NoResult
    /\ UNCHANGED <<clock_year, current_year, ingestVars, keyVars, classifyVars, phaseVars>>

\* compute_evidence_score(studies): the clock is read during the call
Score ==
    /\ current_year' = clock_year
    /\ result' = compute_evidence_score(studies, clock_year)
    /\ UNCHANGED <<clock_year, studies, freshness_result, ingestVars,
                   keyVars, classifyVars, phaseVars>>

\* The calendar year changes between two calls.
NewYear ==
    /\ clock_year < FirstYear + MaxYearsElapsed
    /\ clock_year' = clock_year + 1
    /\ UNCHANGED <<studies, current_year, result, freshness_result,
                   ingestVars, keyVars, classifyVars, phaseVars>>

\* the sources a caller has freshness scores for, and the scores it passes
Sources == {"pubmed", "semantic_scholar"}
FreshnessScores == {20, 100}

\* compute_evidence_score(studies, source_freshness = mapping): the function
\* is declared with the one parameter `studies`, so Python raises TypeError
\* before the body runs
compute_evidence_score_kw(list, year_now, source_freshness) ==
    IF source_freshness # None
    THEN [status |-> "raised", error |-> "TypeError"]
    ELSE compute_evidence_score(list, year_now)

\* a caller scores the list and passes the same freshness for every source
ScoreWithFreshness(v) ==
    /\ freshness_result' =
          [source_freshness |-> [s \in Sources |-> v],
           outcome |-> compute_evidence_score_kw(
                           studies, clock_year, Some([s \in Sources |-> v]))]
    /\ UNCHANGED <<clock_year, studies, current_year, result, ingestVars,
                   keyVars, classifyVars, phaseVars>>

FreshnessNext ==
    \/ \E k \in 1..Len(StudyPool) : AddStudy(k)
    \/ \E v \in FreshnessScores : ScoreWithFreshness(v)

FreshnessSpec == ScoreInit /\ [][FreshnessNext]_vars

ScoreNext ==
    \/ \E k \in 1..Len(StudyPool) : AddStudy(k)
    \/ Score
    \/ NewYear

ScoreSpec == ScoreInit /\ [][ScoreNext]_vars

Returned == result.status = "returned"
Called == result.status # "none"

-----------------------------------------------------------------------------
(* ingest.py: runs of ingest_compound against the database *)

\* ingest_compound is called; all_studies and seen_ids start empty
StartRun(dry) ==
    /\ pc = "idle"
    /\ pc' = "pubmed"
    /\ dry_run' = dry
    /\ all_studies' = <<>>
    /\ all_keys' = <<>>
    /\ seen_ids' = {}
    /\ s2_query' = NoQuery
    /\ log' = [log EXCEPT !.stream = <<>>, !.committed = ZeroCounts,
                          !.failed = FALSE]
    /\ UNCHANGED <<scoreVars, keyVars, classifyVars, phaseVars,
                   dbVars, next_study, db_result, study_id,
                   uuid_count, fetched>>

\* a dedup that keeps the latest candidate of a key
Dedup_LastWins(candidate) ==
    LET dedup_key == make_study_dedup_key(candidate, uuid_count + 1)
        at == CHOOSE i \in 1..Len(all_keys) : all_keys[i] = dedup_key
    IN  /\ uuid_count' = IF dedup_key[1] = "fallback"
                         THEN uuid_count + 1 ELSE uuid_count
        /\ IF dedup_key \notin seen_ids
           THEN /\ seen_ids' = seen_ids \cup {dedup_key}
                /\ all_studies' = Append(all_studies, candidate)
                /\ all_keys' = Append(all_keys, dedup_key)
           ELSE /\ all_studies' = [all_studies EXCEPT ![at] = candidate]
                /\ UNCHANGED <<seen_ids, all_keys>>
        /\ fetched' = fetched + 1
        /\ log' = [log EXCEPT !.stream =
                      Append(@, [candidate |-> candidate, key |-> dedup_key])]

\* dedup_key = make_study_dedup_key(candidate); kept if the key is new
Dedup(candidate) ==
    LET dedup_key == make_study_dedup_key(candidate, uuid_count + 1)
    IN  /\ uuid_count' = IF dedup_key[1] = "fallback"
                         THEN uuid_count + 1 ELSE uuid_count
        /\ IF dedup_key \notin seen_ids
           THEN /\ seen_ids' = seen_ids \cup {dedup_key}
                /\ all_studies' = Append(all_studies, candidate)
                /\ all_keys' = Append(all_keys, dedup_key)
           ELSE UNCHANGED <<seen_ids, all_studies, all_keys>>
        /\ fetched' = fetched + 1
        /\ log' = [log EXCEPT !.stream =
                      Append(@, [candidate |-> candidate, key |-> dedup_key])]

\* one article of a PubMed query result
FetchPubMed(k) ==
    /\ pc = "pubmed"
    /\ fetched < MaxFetched
    /\ Dedup(PubMedCandidate(PubMedPool[k]))
    /\ UNCHANGED <<scoreVars, keyVars, classifyVars, phaseVars,
                   dbVars, pc, dry_run, next_study, db_result,
                   study_id, s2_query>>

\* what an attempt of s2.search can end in: the papers, or an exception
\* whose text does or does not mention 429
SearchErrors == {"none", "429", "other"}

\* a retry loop that tries again after any error
S2Search_RetryAny(error) ==
    /\ pc \in {"pubmed", "s2"}
    /\ pc' = "s2"
    /\ IF s2_query.outcome # "retry"
       THEN s2_query' =
               [attempts    |-> 1,
                first_error |-> error,
                outcome     |-> IF error = "none" THEN "papers" ELSE "retry"]
       ELSE s2_query' =
               [s2_query EXCEPT
                  !.attempts = 2,
                  !.outcome = IF error = "none" THEN "papers" ELSE "failed"]
    /\ UNCHANGED <<scoreVars, keyVars, classifyVars, phaseVars,
                   dbVars, dry_run, all_studies, all_keys, seen_ids,
                   next_study, db_result, study_id, uuid_count, fetched, log>>

\* one attempt of s2.search(query): the first attempt of the next query of
\* s2_queries (the PubMed loop is over), or the second attempt of the
\* current query, made after the 3 s back-off.  An exception that is not
\* retried leaves the query to the outer except clause.
S2Search(error) ==
    /\ pc \in {"pubmed", "s2"}
    /\ pc' = "s2"
    /\ IF s2_query.outcome # "retry"
       THEN s2_query' =
               [attempts    |-> 1,
                first_error |-> error,
                outcome     |-> CASE error = "none" -> "papers"
                                  [] error = "429"  -> "retry"
                                  [] OTHER          -> "failed"]
       ELSE s2_query' =
               [s2_query EXCEPT
                  !.attempts = 2,
                  !.outcome = IF error = "none" THEN "papers" ELSE "failed"]
    /\ UNCHANGED <<scoreVars, keyVars, classifyVars, phaseVars,
                   dbVars, dry_run, all_studies, all_keys, seen_ids,
                   next_study, db_result, study_id, uuid_count, fetched, log>>

\* one paper of the papers the current Semantic Scholar query returned
FetchS2(k) ==
    /\ pc = "s2"
    /\ s2_query.outcome = "papers"
    /\ fetched < MaxFetched
    /\ Dedup(S2Candidate(S2Pool[k]))
    /\ UNCHANGED <<scoreVars, keyVars, classifyVars, phaseVars,
                   dbVars, pc, dry_run, next_study, db_result,
                   study_id, s2_query>>

\* locals of a run are gone when ingest_compound returns
EndRun ==
    /\ pc' = "idle"
    /\ all_studies' = <<>>
    /\ all_keys' = <<>>
    /\ seen_ids' = {}
    /\ next_study' = 1
    /\ db_result' = ZeroCounts
    /\ study_id' = None
    /\ studies' = <<>>
    /\ result' = NoResult
    /\ s2_query' = NoQuery

\* a write phase that updates the compound row in a dry run as well
ScoreAndUpdate_WritesInDryRun ==
    /\ pc \in {"pubmed", "s2"}
    /\ s2_query.outcome # "retry"
    /\ studies' = StudyInputs(all_studies)
    /\ current_year' = clock_year
    /\ result' = compute_evidence_score(StudyInputs(all_studies), clock_year)
    /\ db_compound' =
          [evidenceScore     |-> Some(result'.composite),
           studyCount        |-> Some(result'.study_count),
           metaAnalysisCount |-> Some(result'.meta_analysis_count),
           scoreBreakdown    |-> Some(result'.factors)]
    /\ pc' = "write"
    /\ next_study' = 1
    /\ db_result' = ZeroCounts
    /\ study_id' = None
    /\ s2_query' = NoQuery
    /\ log' = [log EXCEPT !.stream = <<>>]
    /\ UNCHANGED <<clock_year, freshness_result, keyVars, classifyVars,
                   phaseVars, db_studies, db_links, row_keys, dry_run,
                   all_studies, all_keys, seen_ids, uuid_count, fetched>>

\* compute_evidence_score(study_inputs), then update_compound_scores: the
\* compound row is written unless dry_run, and upsert_studies begins.  The
\* two search loops are over, and what is remembered of them is dropped.
ScoreAndUpdate ==
    /\ pc \in {"pubmed", "s2"}
    /\ s2_query.outcome # "retry"
    /\ studies' = StudyInputs(all_studies)
    /\ current_year' = clock_year
    /\ result' = compute_evidence_score(StudyInputs(all_studies), clock_year)
    /\ db_compound' =
          IF dry_run THEN db_compound
          ELSE [evidenceScore     |-> Some(result'.composite),
                studyCount        |-> Some(result'.study_count),
                metaAnalysisCount |-> Some(result'.meta_analysis_count),
                scoreBreakdown    |-> Some(result'.factors)]
    /\ pc' = "write"
    /\ next_study' = 1
    /\ db_result' = ZeroCounts
    /\ study_id' = None
    /\ s2_query' = NoQuery
    /\ log' = [log EXCEPT !.stream = <<>>]
    /\ UNCHANGED <<clock_year, freshness_result, keyVars, classifyVars,
                   phaseVars, db_studies, db_links, row_keys, dry_run,
                   all_studies, all_keys, seen_ids, uuid_count, fetched>>

\* update_compound_scores: the UPDATE raises, the transaction is rolled
\* back, None is returned and upsert_studies is not called
UpdateScoresFails ==
    /\ pc \in {"pubmed", "s2"}
    /\ s2_query.outcome # "retry"
    /\ ~dry_run
    /\ current_year' = clock_year
    /\ EndRun
    /\ log' = [log EXCEPT !.stream = <<>>, !.clean = FALSE]
    /\ UNCHANGED <<clock_year, freshness_result, keyVars, classifyVars,
                   phaseVars, dbVars, dry_run, uuid_count, fetched>>

\* upsert_studies, dry run: the study is printed and skipped
WouldUpsert ==
    /\ pc = "write"
    /\ dry_run
    /\ next_study <= Len(all_studies)
    /\ next_study' = next_study + 1
    /\ UNCHANGED <<scoreVars, keyVars, classifyVars, phaseVars,
                   dbVars, pc, dry_run, all_studies, all_keys,
                   seen_ids, db_result, study_id, uuid_count, fetched,
                   s2_query, log>>

\* the counters after the UPDATE or INSERT of a study and after its link:
\* `updated` or `inserted` goes up when the statement has run, `linked` when
\* the link INSERT reports a new row
Counted(counts, existing_id, was_linked, with_link) ==
    [inserted |-> IF existing_id = None THEN counts.inserted + 1
                  ELSE counts.inserted,
     updated  |-> IF existing_id = None THEN counts.updated
                  ELSE counts.updated + 1,
     linked   |-> IF with_link /\ ~was_linked THEN counts.linked + 1
                  ELSE counts.linked]

\* upsert_studies, one study: SELECT ... LIMIT 1, UPDATE or INSERT, link,
\* commit.  With several matching rows and no ORDER BY the database may
\* return any of them.
UpsertStudy ==
    /\ pc = "write"
    /\ ~dry_run
    /\ next_study <= Len(all_studies)
    /\ LET p == UpsertParams(all_studies[next_study])
           existing == ExistingIds(db_studies, p)
       IN  IF existing # {}
           THEN \E id \in existing :
                   /\ study_id' = Some(id)
                   /\ db_studies' =
                         [db_studies EXCEPT ![id] = UpdatedRow(db_studies[id], p)]
                   /\ row_keys' =
                         [row_keys EXCEPT ![id] = @ \cup {all_keys[next_study]}]
                   /\ db_links' = db_links \cup {id}
                   /\ db_result' =
                         Counted(db_result, Some(id), id \in db_links, TRUE)
                   /\ log' = [log EXCEPT !.committed =
                                 Counted(@, Some(id), id \in db_links, TRUE)]
           ELSE /\ study_id' = Some(Len(db_studies) + 1)
                /\ db_studies' = Append(db_studies, InsertedRow(p))
                /\ row_keys' = Append(row_keys, {all_keys[next_study]})
                /\ db_links' = db_links \cup {Len(db_studies) + 1}
                /\ db_result' = Counted(db_result, None, FALSE, TRUE)
                /\ log' = [log EXCEPT !.committed =
                              Counted(@, None, FALSE, TRUE)]
    /\ next_study' = next_study + 1
    /\ UNCHANGED <<scoreVars, keyVars, classifyVars, phaseVars,
                   db_compound, pc, dry_run, all_studies,
                   all_keys, seen_ids, uuid_count, fetched, s2_query>>

\* the statement of the try block that raises: the SELECT, the UPDATE or
\* INSERT of the study, the INSERT of the link, or the commit
FailurePoints == {"select", "study", "link", "commit"}

\* upsert_studies, one study: a statement raises, the transaction of the
\* study is rolled back and the loop goes on.  The counters that were
\* incremented before the statement that raised stay incremented.
UpsertFails(at) ==
    /\ pc = "write"
    /\ ~dry_run
    /\ next_study <= Len(all_studies)
    /\ LET p == UpsertParams(all_studies[next_study])
           existing == ExistingIds(db_studies, p)
       IN  IF at \in {"select", "study"}
           THEN UNCHANGED db_result
           ELSE IF existing # {}
           THEN \E id \in existing :
                   db_result' = Counted(db_result, Some(id), id \in db_links,
                                        at = "commit")
           ELSE db_result' = Counted(db_result, None, FALSE, at = "commit")
    /\ next_study' = next_study + 1
    /\ log' = [log EXCEPT !.failed = TRUE, !.clean = FALSE]
    /\ UNCHANGED <<scoreVars, keyVars, classifyVars, phaseVars,
                   dbVars, pc, dry_run, all_studies, all_keys,
                   seen_ids, study_id, uuid_count, fetched, s2_query>>

\* upsert_studies returns its counts and ingest_compound its summary
FinishRun ==
    /\ pc = "write"
    /\ next_study > Len(all_studies)
    /\ EndRun
    /\ log' = [log EXCEPT
                 !.prev_studies = IF dry_run THEN @
                                  ELSE IF ~log.failed THEN Some(all_studies)
                                  ELSE None]
    /\ UNCHANGED <<clock_year, current_year, freshness_result, keyVars,
                   classifyVars, phaseVars, dbVars, dry_run, uuid_count,
                   fetched>>

Init ==
    /\ clock_year = FirstYear
    /\ studies = <<>>
    /\ current_year = FirstYear
    /\ result = NoResult
    /\ freshness_result = NoResult
    /\ IngestInit
    /\ KeyInit
    /\ ClassifyInit
    /\ PhaseInit(None)

Next ==
    \/ \E dry \in BOOLEAN : StartRun(dry)
    \/ \E k \in 1..Len(PubMedPool) : FetchPubMed(k)
    \/ \E error \in SearchErrors : S2Search(error)
    \/ \E k \in 1..Len(S2Pool) : FetchS2(k)
    \/ ScoreAndUpdate
    \/ UpdateScoresFails
    \/ WouldUpsert
    \/ UpsertStudy
    \/ \E at \in FailurePoints : UpsertFails(at)
    \/ FinishRun

Spec == Init /\ [][Next]_vars

-----------------------------------------------------------------------------
(* ingest.py: repeated runs for one compound against a Study table that    *)
(* holds the studies of other compounds as well (main ingests the          *)
(* compounds one after another; the Study table is shared)                 *)

\* ingest_compound for another compound, between two runs for this one:
\* one article of its PubMed results goes through upsert_studies and is
\* linked to that compound, so db_links, the links of this compound, stay
\* as they are
IngestOther(k) ==
    /\ pc = "idle"
    /\ log.others < MaxOtherStudies
    /\ LET candidate == PubMedCandidate(PubMedPool[k])
           dedup_key == make_study_dedup_key(candidate, uuid_count + 1)
           p == UpsertParams(candidate)
           existing == ExistingIds(db_studies, p)
       IN  /\ uuid_count' = IF dedup_key[1] = "fallback"
                            THEN uuid_count + 1 ELSE uuid_count
           /\ IF existing # {}
              THEN \E id \in existing :
                      /\ db_studies' =
                            [db_studies EXCEPT ![id] = UpdatedRow(db_studies[id], p)]
                      /\ row_keys' = [row_keys EXCEPT ![id] = @ \cup {dedup_key}]
              ELSE /\ db_studies' = Append(db_studies, InsertedRow(p))
                   /\ row_keys' = Append(row_keys, {dedup_key})
    /\ log' = [log EXCEPT !.prev_studies = None, !.others = @ + 1]
    /\ UNCHANGED <<scoreVars, keyVars, classifyVars, phaseVars, db_links,
                   db_compound, pc, dry_run, all_studies, all_keys, seen_ids,
                   next_study, db_result, study_id, fetched, s2_query>>

RerunNext ==
    \/ \E k \in 1..Len(PubMedPool) : IngestOther(k)
    \/ StartRun(FALSE)
    \/ \E k \in 1..Len(PubMedPool) : FetchPubMed(k)
    \/ S2Search("none")
    \/ \E k \in 1..Len(S2Pool) : FetchS2(k)
    \/ ScoreAndUpdate
    \/ UpsertStudy
    \/ FinishRun

RerunSpec == Init /\ [][RerunNext]_vars

-----------------------------------------------------------------------------
(* make_study_dedup_key on candidates of every shape *)

UpperChar(c) ==
    IF \E i \in 1..Len(LowerCase) : LowerCase[i] = c
    THEN UpperCase[CHOOSE i \in 1..Len(LowerCase) : LowerCase[i] = c]
    ELSE c

Upper(s) == [i \in 1..Len(s) |-> UpperChar(s[i])]

\* the forms a DOI is written in: with or without a resolver prefix, in
\* the case given, lower case or upper case, with or without blanks around
DoiPrefixes ==
    { <<>>, <<"h","t","t","p","s",":","/","/","d","o","i",".","o","r","g","/">>, <<"h","t","t","p",":","/","/","d","o","i",".","o","r","g","/">>,
      <<"h","t","t","p","s",":","/","/","d","x",".","d","o","i",".","o","r","g","/">>, <<"h","t","t","p",":","/","/","d","x",".","d","o","i",".","o","r","g","/">> }

DoiSpellings(base) ==
    LET cased == UNION {{prefix \o base, Lower(prefix \o base),
                         Upper(prefix \o base)} : prefix \in DoiPrefixes}
    IN  cased \cup {<<" ">> \o s \o <<" ", "\n">> : s \in cased}

DoiBase == <<"1","0",".","1","/","A","b">>

DoiValues ==
    {None, Some(<<>>), Some(<<" ","h","t","t","p","s",":","/","/","d","o","i",".","o","r","g","/">>), Some(<<"1","0",".","1","/","c">>)}
        \cup {Some(s) : s \in DoiSpellings(DoiBase)}

PmidValues == {None, Some(<<>>), Some(<<" ","7">>)}
S2IdValues == {None, Some(<<" "," ">>), Some(<<"s","1"," ">>)}
TitleValues == {None, Some(<<"?","!">>), Some(<<" ","A"," "," ","b","!">>)}
YearValues == {None, Some(0), Some(FirstYear - 1)}

\* the caller builds a candidate, one field at a time
SetDoi(v) ==
    /\ cand.doi # v
    /\ cand' = [cand EXCEPT !.doi = v]
    /\ cand_key' = None
    /\ UNCHANGED <<scoreVars, ingestVars, classifyVars, phaseVars>>

SetPmid(v) ==
    /\ cand.pmid # v
    /\ cand' = [cand EXCEPT !.pmid = v]
    /\ cand_key' = None
    /\ UNCHANGED <<scoreVars, ingestVars, classifyVars, phaseVars>>

SetS2Id(v) ==
    /\ cand.s2_id # v
    /\ cand' = [cand EXCEPT !.s2_id = v]
    /\ cand_key' = None
    /\ UNCHANGED <<scoreVars, ingestVars, classifyVars, phaseVars>>

SetTitle(v) ==
    /\ cand.title # v
    /\ cand' = [cand EXCEPT !.title = v]
    /\ cand_key' = None
    /\ UNCHANGED <<scoreVars, ingestVars, classifyVars, phaseVars>>

SetYear(v) ==
    /\ cand.year # v
    /\ cand' = [cand EXCEPT !.year = v]
    /\ cand_key' = None
    /\ UNCHANGED <<scoreVars, ingestVars, classifyVars, phaseVars>>

\* make_study_dedup_key(cand); uuid.uuid4() is called for a fallback key only
MakeKey ==
    /\ uuid_count < MaxFetched
    /\ cand_key' = Some(make_study_dedup_key(cand, uuid_count + 1))
    /\ uuid_count' = IF Val(cand_key')[1] = "fallback"
                     THEN uuid_count + 1 ELSE uuid_count
    /\ UNCHANGED <<scoreVars, dbVars, pc, dry_run, all_studies, all_keys,
                   seen_ids, next_study, db_result, study_id, fetched,
                   s2_query, log, cand, classifyVars, phaseVars>>

KeyNext ==
    \/ \E v \in DoiValues : SetDoi(v)
    \/ \E v \in PmidValues : SetPmid(v)
    \/ \E v \in S2IdValues : SetS2Id(v)
    \/ \E v \in TitleValues : SetTitle(v)
    \/ \E v \in YearValues : SetYear(v)
    \/ MakeKey

KeySpec == Init /\ [][KeyNext]_vars

-----------------------------------------------------------------------------
(* normalize_title and the title key on titles of every shape *)

MaxTitleLen == 5

\* a letter of each case, a punctuation mark and a blank
TitleAlphabet == {"a", "B", "-", " "}

\* the caller's title grows by one character
TypeTitleChar(c) ==
    /\ Len(OrEmpty(cand.title)) < MaxTitleLen
    /\ cand' = [cand EXCEPT !.title = Some(Append(OrEmpty(cand.title), c))]
    /\ cand_key' = None
    /\ UNCHANGED <<scoreVars, ingestVars, classifyVars, phaseVars>>

TitleNext ==
    \/ \E c \in TitleAlphabet : TypeTitleChar(c)
    \/ \E v \in YearValues : SetYear(v)
    \/ MakeKey

TitleSpec == Init /\ [][TitleNext]_vars

-----------------------------------------------------------------------------
(* classify_study_type on articles of every shape *)

MaxTags == 2

\* publication types: every tag of the table, and one that is not in it
TagPool ==
    <<"Meta-Analysis", "Systematic Review", "Randomized Controlled Trial",
      "Controlled Clinical Trial", "Clinical Trial", "Clinical Trial, Phase I",
      "Clinical Trial, Phase II", "Clinical Trial, Phase III",
      "Clinical Trial, Phase IV", "Cohort Studies", "Observational Study",
      "Case-Control Studies", "Cross-Sectional Studies", "Case Reports",
      "Review", "Journal Article">>

\* MeSH descriptors: study designs of the table, and two that are not in it
MeshPool ==
    <<"Humans", "Animals", "Cohort Studies", "Cross-Sectional Studies">>

AbstractPool ==
    { <<>>,
      <<"A"," ","M","e","t","a","-","A","n","a","l","y","s","i","s"," ","o","f"," ","r","a","n","d","o","m","i","z","e","d"," ","c","o","n","t","r","o","l","l","e","d"," ","t","r","i","a","l","s">>,
      <<"M","e","t","a"," ","a","n","a","l","y","s","i","s"," ","i","n"," ","v","i","t","r","o">>,
      <<"R","a","n","d","o","m","i","z","e","d",","," ","c","o","n","t","r","o","l","l","e","d","."," ","S","y","s","t","e","m","a","t","i","c"," ","r","e","v","i","e","w",".">>,
      <<"R","a","n","d","o","m","i","z","e","d","."," ","S","y","s","t","e","m","a","t","i","c"," ","R","e","v","i","e","w"," ","i","n"," ","m","i","c","e">>,
      <<"C","o","n","t","r","o","l","l","e","d",","," ","r","a","t","s",","," ","i","n"," ","v","i","t","r","o">>,
      <<"A","n"," ","a","n","i","m","a","l"," ","c","e","l","l"," ","c","u","l","t","u","r","e">>,
      <<"C","e","l","l"," ","C","u","l","t","u","r","e",","," ","c","o","n","t","r","o","l","l","e","d">>,
      <<"M","e","t","h","o","d","s"," ","a","n","d"," ","r","e","s","u","l","t","s">> }

\* the article gets one more publication type; the classifier reads the
\* tags as a set, so they are added in table order
AddPublicationType(k) ==
    /\ Len(art.publication_types) < MaxTags
    /\ \A i \in 1..Len(art.publication_types) :
          \E j \in 1..(k - 1) : TagPool[j] = art.publication_types[i]
    /\ art' = [art EXCEPT !.publication_types = Append(@, TagPool[k])]
    /\ art_type' = None
    /\ UNCHANGED <<scoreVars, ingestVars, keyVars, phaseVars>>

\* the article gets a MeSH term
AddMeshTerm(k) ==
    /\ art.mesh_terms = <<>>
    /\ art' = [art EXCEPT !.mesh_terms = <<MeshPool[k]>>]
    /\ art_type' = None
    /\ UNCHANGED <<scoreVars, ingestVars, keyVars, phaseVars>>

SetAbstract(a) ==
    /\ art.abstract # a
    /\ art' = [art EXCEPT !.abstract = a]
    /\ art_type' = None
    /\ UNCHANGED <<scoreVars, ingestVars, keyVars, phaseVars>>

\* classify_study_type(art)
Classify ==
    /\ art_type' = Some(classify_study_type(art))
    /\ UNCHANGED <<scoreVars, ingestVars, keyVars, phaseVars, art>>

ClassifyNext ==
    \/ \E k \in 1..Len(TagPool) : AddPublicationType(k)
    \/ \E k \in 1..Len(MeshPool) : AddMeshTerm(k)
    \/ \E a \in AbstractPool : SetAbstract(a)
    \/ Classify

ClassifySpec == Init /\ [][ClassifyNext]_vars

-----------------------------------------------------------------------------
(* update_phases, run again and again as the registry changes *)

MaxTrials == 2

\* studies of an API response: which search name finds them, their
\* overallStatus and their phases
TrialPool ==
    << [found_by |-> 1, status |-> "COMPLETED", phases |-> <<"PHASE2", "PHASE3">>],
       [found_by |-> 1, status |-> "RECRUITING", phases |-> <<"EARLY_PHASE1">>],
       [found_by |-> 2, status |-> "COMPLETED", phases |-> <<"PHASE4">>],
       [found_by |-> 1, status |-> "WITHDRAWN", phases |-> <<"PHASE4">>],
       [found_by |-> 2, status |-> "ACTIVE_NOT_RECRUITING", phases |-> <<"NA">>],
       [found_by |-> 1, status |-> "ENROLLING_BY_INVITATION",
        phases |-> <<"PHASE2", "PHASE1">>] >>

\* search_names = [name] + aliases: the name and one alias
SearchNames == <<1, 2>>

\* the clinicalPhase a compound is seeded with: none, a label of the
\* hierarchy, or a label the hierarchy does not have
SeedPhases ==
    {None, Some("Preclinical"), Some("Phase II"), Some("No formal trials")}

\* a trial appears in the registry
RegisterTrial(k) ==
    /\ Len(ct_response) < MaxTrials
    /\ ct_response' = Append(ct_response, TrialPool[k])
    /\ UNCHANGED <<scoreVars, ingestVars, keyVars, classifyVars,
                   clinicalPhase, phase_result>>

\* the registry no longer lists the trials
WithdrawTrials ==
    /\ ct_response # <<>>
    /\ ct_response' = <<>>
    /\ UNCHANGED <<scoreVars, ingestVars, keyVars, classifyVars,
                   clinicalPhase, phase_result>>

\* update_phases for the compound.  conn: the database was reachable (a
\* run that is not a dry run exits without it); failing: the search names
\* whose search raises; commit_ok: the UPDATE and its commit go through.
UpdatePhases(dry, conn, failing, commit_ok) ==
    /\ conn \/ dry
    /\ LET current_phase == IF conn THEN clinicalPhase ELSE None
           best_phase == BestOfSearches(ct_response, SearchNames, failing, None)
           update == should_update(best_phase, current_phase)
           written == update /\ ~dry /\ conn /\ commit_ok
           action == IF ~update THEN "no change"
                     ELSE IF dry THEN "would update"
                     ELSE IF commit_ok THEN "updated"
                     ELSE "error"
       IN  /\ clinicalPhase' = IF written THEN best_phase ELSE clinicalPhase
           /\ phase_result' =
                 [status  |-> "done",
                  dry_run |-> dry,
                  current |-> IF current_phase = None THEN "None"
                              ELSE Val(current_phase),
                  found   |-> IF best_phase = None THEN "None"
                              ELSE Val(best_phase),
                  action  |-> action]
    /\ UNCHANGED <<scoreVars, ingestVars, keyVars, classifyVars, ct_response>>

PhaseNext ==
    \/ \E k \in 1..Len(TrialPool) : RegisterTrial(k)
    \/ WithdrawTrials
    \/ \E dry, conn \in BOOLEAN :
          \E failing \in SUBSET ToSet(SearchNames) :
              \E commit_ok \in IF dry THEN {TRUE} ELSE BOOLEAN :
                  UpdatePhases(dry, conn, failing, commit_ok)

\* the scorer, the ingestion and the classifier idle; any seeded phase
PhaseSpecInit ==
    /\ clock_year = FirstYear
    /\ studies = <<>>
    /\ current_year = FirstYear
    /\ result = NoResult
    /\ freshness_result = NoResult
    /\ IngestInit
    /\ KeyInit
    /\ ClassifyInit
    /\ \E seed \in SeedPhases : PhaseInit(seed)

PhaseSpec == PhaseSpecInit /\ [][PhaseNext]_vars

-----------------------------------------------------------------------------
(* Claims about compute_evidence_score, checked under ScoreSpec.  In every  *)
(* state `result` belongs to the list `studies`: AddStudy discards it.      *)

InRange(x) == 0 <= x /\ x <= 1000

\* C1 (as claimed): for every non-empty study list, extreme numeric input
\* included, the call returns, and the composite and each of the six
\* factors lie in [0, 100].
C1_BoundedOutputForEveryInput ==
    (Called /\ studies # <<>>) =>
        /\ Returned
        /\ InRange(result.composite)
        /\ \A k \in ToSet(FactorNames) : InRange(result.factors[k])

\* C2: on the empty list the call returns composite 0.0, each of the six
\* factors 0.0, evidence level "D", study_count 0, meta_analysis_count 0.
C2_EmptyListZeroResult ==
    (Called /\ studies = <<>>) =>
        /\ Returned
        /\ result.composite = 0
        /\ DOMAIN result.factors = ToSet(FactorNames)
        /\ \A k \in ToSet(FactorNames) : result.factors[k] = 0
        /\ result.evidence_level = "D"
        /\ result.study_count = 0
        /\ result.meta_analysis_count = 0

C2_Witness == studies = <<>> /\ Returned

\* C3 (as claimed): two calls with the same list give the same output,
\* whenever they are made.
C3_SameInputSameOutput ==
    [][(Called /\ Called' /\ studies' = studies) => result' = result]_scoreVars

\* sum of factor * weight, the weights written out in hundredths
WeightedSum(f, w_count, w_quality, w_sample, w_consistency, w_replication,
            w_recency) ==
    w_count * f.study_count + w_quality * f.study_quality
        + w_sample * f.sample_size + w_consistency * f.consistency
        + w_replication * f.replication + w_recency * f.recency

\* C4 (as claimed): composite is the sum of factor * weight with weights
\* 0.36, 0.30, 0.10, 0.10, 0.05, 0.09.
C4_CompositeWithWeights36And09 ==
    (Returned /\ studies # <<>>) =>
        result.composite =
            Round1(WeightedSum(Factors(studies, current_year),
                               36, 30, 10, 10, 5, 9), 10000)

\* C4 (amended): for every non-empty list the composite returned is the sum
\* over the six factors of factor * weight with the weights study_count
\* 0.40, study_quality 0.30, sample_size 0.10, consistency 0.10,
\* replication 0.05, recency 0.05, which sum to 1.0.
C4_CompositeIsWeightedSum ==
    (Returned /\ studies # <<>>) =>
        /\ result.composite =
              Round1(WeightedSum(Factors(studies, current_year),
                                 40, 30, 10, 10, 5, 5), 10000)
        /\ SumSeq([i \in 1..Len(FactorNames) |->
                      FACTOR_WEIGHTS[FactorNames[i]]]) = 100
        /\ \A k \in ToSet(FactorNames) : FACTOR_WEIGHTS[k] >= 0

\* a list whose recency and study_count factors differ, so that the two
\* weight sets give different composites
C4_Witness ==
    /\ Returned
    /\ Len(studies) >= 2
    /\ result.factors.recency > result.factors.study_count + 100

\* C5: for every non-empty list the level is "A" iff composite >= 75 with
\* at least one META_ANALYSIS and at least three RCT; else "B" iff
\* composite >= 50 with at least one RCT or META_ANALYSIS; else "C" iff
\* composite >= 25; else "D".  A list with neither RCT nor META_ANALYSIS
\* gets neither "A" nor "B".
C5_LevelDecision ==
    (Returned /\ studies # <<>>) =>
        LET c == Composite(Factors(studies, current_year))
            metas == Cardinality({i \in 1..Len(studies) :
                                     studies[i].study_type = "META_ANALYSIS"})
            rcts == Cardinality({i \in 1..Len(studies) :
                                    studies[i].study_type = "RCT"})
            isA == c >= 75 * 100000 /\ metas >= 1 /\ rcts >= 3
            isB == ~isA /\ c >= 50 * 100000 /\ (rcts >= 1 \/ metas >= 1)
            isC == ~isA /\ ~isB /\ c >= 25 * 100000
        IN  /\ result.evidence_level = "A" <=> isA
            /\ result.evidence_level = "B" <=> isB
            /\ result.evidence_level = "C" <=> isC
            /\ result.evidence_level = "D" <=> (~isA /\ ~isB /\ ~isC)
            /\ (metas = 0 /\ rcts = 0) => result.evidence_level \in {"C", "D"}

\* a list scoring 50 or more with neither RCT nor META_ANALYSIS
C5_Witness ==
    /\ Returned
    /\ result.composite >= 500
    /\ \A i \in 1..Len(studies) :
          studies[i].study_type \notin {"RCT", "META_ANALYSIS"}
    /\ result.evidence_level = "C"

\* the study_quality factor as returned: round(_score_study_quality, 1)
StudyQuality(list) == Round1(_score_study_quality(list), 100)

PoolRcts == {k \in 1..Len(StudyPool) : StudyPool[k].study_type = "RCT"}

\* mean study-type weight of the list <= 4.0, the weight of an RCT
MeanWeightAtMostRct(list) ==
    SumSeq([i \in 1..Len(list) |-> STUDY_TYPE_WEIGHTS(list[i].study_type)])
        <= 40 * Len(list)

\* C6 (as claimed): appending one RCT to a non-empty list never lowers
\* study_quality.
C6_AppendRctNeverLowersQuality ==
    studies # <<>> =>
        \A k \in PoolRcts :
            StudyQuality(Append(studies, StudyPool[k])) >= StudyQuality(studies)

\* C6 (amended): appending one RCT to a non-empty list whose mean
\* study-type weight is at most 4.0 (the weight of an RCT) never lowers
\* study_quality.
C6_AppendRctToWeakerListNeverLowersQuality ==
    (studies # <<>> /\ MeanWeightAtMostRct(studies)) =>
        \A k \in PoolRcts :
            StudyQuality(Append(studies, StudyPool[k])) >= StudyQuality(studies)

\* an RCT was appended to a list of lower mean weight, and the list scored
C6_Witness ==
    /\ Returned
    /\ Len(studies) >= 2
    /\ studies[Len(studies)].study_type = "RCT"
    /\ LET before == SubSeq(studies, 1, Len(studies) - 1)
       IN  /\ MeanWeightAtMostRct(before)
           /\ \E i \in 1..Len(before) : before[i].study_type = "META_ANALYSIS"
           /\ result.factors.study_quality > StudyQuality(before)

-----------------------------------------------------------------------------
(* Claims about the dedup of candidates, checked under Spec.  row_keys      *)
(* records, for each Study row, the dedup keys of the candidates that were  *)
(* written to it.                                                           *)

\* C7 (as claimed): two candidates end up as the same Study iff their dedup
\* keys are equal: no row holds candidates of two different keys, no key is
\* held by two rows, and within a run the kept candidates have distinct keys.
C7_SameStudyIffSameKey ==
    /\ \A id \in 1..Len(row_keys) : Cardinality(row_keys[id]) <= 1
    /\ \A id1, id2 \in 1..Len(row_keys) :
          id1 # id2 => row_keys[id1] \cap row_keys[id2] = {}
    /\ \A i, j \in 1..Len(all_keys) : i # j => all_keys[i] # all_keys[j]

\* the step of upsert_studies that matched an existing row
UpsertMatched ==
    /\ pc = "write"
    /\ next_study' = next_study + 1
    /\ log'.committed.updated = log.committed.updated + 1

\* the row agrees with the candidate on the candidate's first identifier in
\* the order DOI, PMID, source ID, normalized title + year
MatchesByFirstIdentifier(row, study) ==
    LET doi == normalize_doi(study.doi)
        pmid == Strip(OrEmpty(study.pmid))
        s2_id == Strip(OrEmpty(study.s2_id))
    IN  IF TruthyStr(doi)
        THEN row.doi # None /\ normalize_doi(row.doi) = doi
        ELSE IF pmid # <<>>
        THEN row.pmid # None /\ Strip(Val(row.pmid)) = pmid
        ELSE IF s2_id # <<>>
        THEN /\ row.semanticScholarId # None
             /\ Strip(Val(row.semanticScholarId)) = s2_id
        ELSE /\ normalize_title(Some(row.title)) = normalize_title(study.title)
             /\ row.year = study.year

\* C8 (as claimed): a candidate is merged only into a record that carries
\* the candidate's first identifier in the order DOI, PMID, source ID,
\* normalized title + year; a match through a lower-priority identifier
\* alone never merges.
C8_FirstIdentifierAuthoritative ==
    [][UpsertMatched =>
          MatchesByFirstIdentifier(db_studies[Val(study_id')],
                                   all_studies[next_study])]_vars

\* C9 (as claimed): a candidate with a fallback key is kept in the run as an
\* entry of its own, and its upsert never matches an existing row.
C9_FallbackAlwaysNew ==
    [][(pc = "write" /\ next_study' = next_study + 1 /\ ~dry_run
            /\ all_keys[next_study][1] = "fallback")
          => /\ db_result'.updated = db_result.updated
             /\ Cardinality({i \in 1..Len(all_keys) :
                                all_keys[i] = all_keys[next_study]}) = 1]_vars

\* C10 (as claimed): an upsert leaves every populated field of every
\* existing Study row as it was: title, abstract, authors, journal, year,
\* studyType and the open-access data.
C10_PopulatedFieldsKept ==
    [][\A id \in 1..Len(db_studies) :
          LET old == db_studies[id]
              new == db_studies'[id]
          IN  /\ old.title # <<>> => new.title = old.title
              /\ old.abstract # <<>> => new.abstract = old.abstract
              /\ old.authors # <<>> => new.authors = old.authors
              /\ old.journal # None => new.journal = old.journal
              /\ old.year # None => new.year = old.year
              /\ old.studyType # "OTHER" => new.studyType = old.studyType
              /\ old.isOpenAccess => new.isOpenAccess
              /\ old.fullTextUrl # None => new.fullTextUrl = old.fullTextUrl]_vars

-----------------------------------------------------------------------------
(* Claims about the merged identifiers of a Study row, checked under RerunSpec *)

\* for one identifier column over one matching upsert: a value that is set
\* stays, and a column with no value takes the value the candidate supplies
FirstNonEmptyWins(old, new, supplied) ==
    /\ TruthyStr(old) => new = old
    /\ (~TruthyStr(old) /\ TruthyStr(supplied)) => new = supplied

\* C11 (as claimed): for pmid, doi and the Semantic Scholar id of a Study
\* row the first non-empty value wins: over every upsert that matches the
\* row, an identifier that has a value keeps it, and an identifier without
\* one is filled by the first candidate that supplies one.
C11_FirstNonEmptyIdentifierWins ==
    [][UpsertMatched =>
          LET id == Val(study_id')
              old == db_studies[id]
              new == db_studies'[id]
              p == UpsertParams(all_studies[next_study])
          IN  /\ FirstNonEmptyWins(old.pmid, new.pmid, p.pmid)
              /\ FirstNonEmptyWins(old.doi, new.doi, p.doi)
              /\ FirstNonEmptyWins(old.semanticScholarId,
                                   new.semanticScholarId, p.s2_id)]_vars

-----------------------------------------------------------------------------
(* Claims about make_study_dedup_key, checked under KeySpec *)

\* the candidates that differ from c in one of the fields named, and in
\* that field only.  Every candidate is reached in a chain of such changes,
\* so keys that survive each single change survive all of them.
Varying(c, pmids, s2_ids, titles, years) ==
    {[c EXCEPT !.pmid = p] : p \in pmids}
        \cup {[c EXCEPT !.s2_id = s] : s \in s2_ids}
        \cup {[c EXCEPT !.title = ti] : ti \in titles}
        \cup {[c EXCEPT !.year = y] : y \in years}

\* C12: the key comes from the first non-empty of normalized DOI, trimmed
\* PMID, trimmed source id, normalized title (with the year), and is a
\* fresh fallback token when all four are empty; the fields below the one
\* that decides have no influence on the key.
C12_KeyFromHighestPriorityIdentifier ==
    cand_key # None =>
        LET key == Val(cand_key)
            doi == normalize_doi(cand.doi)
            pmid == Strip(OrEmpty(cand.pmid))
            s2_id == Strip(OrEmpty(cand.s2_id))
            title == normalize_title(cand.title)
            SameKey(others) ==
                \A d \in others : make_study_dedup_key(d, uuid_count) = key
        IN  /\ doi # None =>
                 /\ key = <<"doi", Val(doi)>>
                 /\ SameKey(Varying(cand, PmidValues, S2IdValues,
                                    TitleValues, YearValues))
            /\ (doi = None /\ pmid # <<>>) =>
                 /\ key = <<"pmid", pmid>>
                 /\ SameKey(Varying(cand, {cand.pmid}, S2IdValues,
                                    TitleValues, YearValues))
            /\ (doi = None /\ pmid = <<>> /\ s2_id # <<>>) =>
                 /\ key = <<"s2", s2_id>>
                 /\ SameKey(Varying(cand, {cand.pmid}, {cand.s2_id},
                                    TitleValues, YearValues))
            /\ (doi = None /\ pmid = <<>> /\ s2_id = <<>> /\ title # <<>>) =>
                 /\ key[1] = "title"
                 /\ key[2] = title
                 /\ key[3] = (IF cand.year \in {None, Some(0)}
                              THEN None ELSE cand.year)
            /\ (doi = None /\ pmid = <<>> /\ s2_id = <<>> /\ title = <<>>) =>
                 key = <<"fallback", uuid_count>> /\ uuid_count > 0

\* a PMID decides the key of a candidate whose DOI is empty and which has a
\* source id and a title as well
C12_Witness ==
    /\ cand_key # None
    /\ Val(cand_key)[1] = "pmid"
    /\ cand.doi = Some(<<>>)
    /\ TruthyStr(cand.s2_id)
    /\ TruthyStr(cand.title)

\* C13: candidates whose DOI strings differ only in letter case, in the
\* whitespace around them or in an http(s)://doi.org/ or
\* http(s)://dx.doi.org/ prefix get equal dedup keys: each spelling of a
\* DOI gives the key of the bare lower-case spelling.
C13_DoiSpellingsShareOneKey ==
    (cand_key # None /\ cand.doi # None
        /\ Val(cand.doi) \in DoiSpellings(DoiBase)) =>
        Val(cand_key) =
            make_study_dedup_key([cand EXCEPT !.doi = Some(Lower(DoiBase))],
                                 uuid_count)

\* the key of a DOI written in upper case behind the dx.doi.org resolver,
\* with whitespace around it
C13_Witness ==
    /\ cand_key # None
    /\ cand.doi = Some(<<" ">> \o Upper(<<"h","t","t","p","s",":","/","/","d","x",".","d","o","i",".","o","r","g","/">> \o DoiBase)
                          \o <<" ", "\n">>)
    /\ Val(cand_key) = <<"doi", Lower(DoiBase)>>

-----------------------------------------------------------------------------
(* Claims about classify_study_type, checked under ClassifySpec *)

\* the categories the structured tags of an article map to
TagCategories(article) ==
    {Val(STUDY_TYPE_MAP(tag)) :
        tag \in {x \in ToSet(article.publication_types)
                          \cup ToSet(article.mesh_terms) :
                    STUDY_TYPE_MAP(x) # None}}

\* the ranking of the claim, ANIMAL and IN_VITRO below the nine others
Ranking ==
    <<"META_ANALYSIS", "SYSTEMATIC_REVIEW", "RCT", "CONTROLLED_TRIAL", "COHORT",
      "CASE_CONTROL", "CROSS_SECTIONAL", "CASE_REPORT", "REVIEW", "ANIMAL",
      "IN_VITRO">>

RankOf(category) == CHOOSE i \in 1..Len(Ranking) : Ranking[i] = category

Mentions(article, keyword) == Contains(Lower(article.abstract), keyword)

Keywords ==
    {KwMetaHyphen, KwMetaSpace, KwRandomized, KwControlled, KwSystematicReview,
     KwAnimal, KwMice, KwRats, KwInVitro, KwCellCulture}

\* C14: the result is one category of the enumeration: the highest-ranked
\* of the categories found under META_ANALYSIS > SYSTEMATIC_REVIEW > RCT >
\* CONTROLLED_TRIAL > COHORT > CASE_CONTROL > CROSS_SECTIONAL > CASE_REPORT
\* > REVIEW, then ANIMAL, then IN_VITRO, and OTHER when nothing is found;
\* tagged "Meta-Analysis" and "Case Reports" is META_ANALYSIS.
C14_HighestRankedCategory ==
    art_type # None =>
        LET found == TagCategories(art)
            category == Val(art_type)
        IN  /\ category \in ToSet(Ranking) \cup {"OTHER"}
            /\ found # {} =>
                  /\ category \in found
                  /\ \A c \in found : RankOf(category) <= RankOf(c)
            /\ (found = {} /\ \A k \in Keywords : ~Mentions(art, k)) =>
                  category = "OTHER"
            /\ (found = {} /\ category # "OTHER") =>
                  \E k \in Keywords : Mentions(art, k)
            /\ ({"Meta-Analysis", "Case Reports"}
                    \subseteq ToSet(art.publication_types)) =>
                  category = "META_ANALYSIS"

C14_Witness ==
    /\ art_type = Some("META_ANALYSIS")
    /\ art.publication_types = <<"Meta-Analysis", "Case Reports">>

\* C15: when a publication type or MeSH term maps to a category, the
\* abstract has no influence: the article classifies as it does with an
\* empty abstract, hence as every article with the same tags.
C15_TagsBeforeAbstract ==
    (art_type # None /\ TagCategories(art) # {}) =>
        Val(art_type) = classify_study_type([art EXCEPT !.abstract = <<>>])

\* a tagged case report whose abstract speaks of a meta-analysis
C15_Witness ==
    /\ art_type = Some("CASE_REPORT")
    /\ Mentions(art, KwMetaHyphen)

\* C16: when no tag maps to a category, the abstract rules are tried in the
\* order meta-analysis, randomized and controlled, systematic review,
\* animal / mice / rats, in vitro / cell culture, and the first rule that
\* matches decides alone.
C16_FirstKeywordRuleDecides ==
    (art_type # None /\ TagCategories(art) = {}) =>
        LET rules ==
                << Mentions(art, KwMetaHyphen) \/ Mentions(art, KwMetaSpace),
                   Mentions(art, KwRandomized) /\ Mentions(art, KwControlled),
                   Mentions(art, KwSystematicReview),
                   Mentions(art, KwAnimal) \/ Mentions(art, KwMice)
                       \/ Mentions(art, KwRats),
                   Mentions(art, KwInVitro) \/ Mentions(art, KwCellCulture) >>
            outcome ==
                <<"META_ANALYSIS", "RCT", "SYSTEMATIC_REVIEW", "ANIMAL",
                  "IN_VITRO">>
            matching == {i \in 1..5 : rules[i]}
        IN  /\ \A i \in matching :
                  (\A j \in matching : i <= j) => Val(art_type) = outcome[i]
            /\ matching = {} => Val(art_type) = "OTHER"

\* an untagged abstract with "randomized", "controlled" and "systematic
\* review" is an RCT
C16_Witness ==
    /\ art_type = Some("RCT")
    /\ TagCategories(art) = {}
    /\ Mentions(art, KwSystematicReview)

-----------------------------------------------------------------------------
(* Claims about the factors of the score, checked under ScoreSpec *)

\* the positions of the studies with a known year
Dated(list) == {i \in 1..Len(list) : list[i].year \notin {None, Some(0)}}

\* how many dated studies were published at most `age` years before `now`
PublishedWithin(list, now, age) ==
    Cardinality({i \in Dated(list) : now - Val(list[i].year) <= age})

\* C17 (as claimed): recency is 45 x (share of dated studies at most 2
\* years old) + 35 x (share at most 5) + 20 x (share at most 8), and 45.0
\* when no study has a known year.
C17_RecencyBuckets258 ==
    (Returned /\ studies # <<>>) =>
        LET n == Cardinality(Dated(studies))
            Within(age) == PublishedWithin(studies, current_year, age)
        IN  result.factors.recency =
                IF n = 0 THEN 450
                ELSE Round1(450 * Within(2) + 350 * Within(5)
                                + 200 * Within(8), n)

\* C17 (amended): recency is 50 x (share of dated studies at most 5 years
\* old) + 40 x (share at most 3 years old) + 10, at most 100, the ages
\* counted from the calendar year read by the call, and 45.0 when no study
\* has a known year.
C17_RecencyBuckets53 ==
    (Returned /\ studies # <<>>) =>
        LET n == Cardinality(Dated(studies))
            Within(age) == PublishedWithin(studies, current_year, age)
        IN  result.factors.recency =
                IF n = 0 THEN 450
                ELSE Min(Round1(500 * Within(5) + 400 * Within(3) + 100 * n, n),
                         1000)

\* a scored list whose dated studies fall in different buckets
C17_Witness ==
    /\ Returned
    /\ LET n == Cardinality(Dated(studies))
           Within(age) == PublishedWithin(studies, current_year, age)
       IN  /\ 0 < Within(3)
           /\ Within(3) < Within(5)
           /\ Within(5) < n

\* C18 (as claimed): a call that supplies source_freshness returns, and its
\* recency is 0.7 x base + 0.3 x the average of the freshness values
\* clamped to [0, 100], base being the recency of the call without it.
C18_FreshnessBlending ==
    (freshness_result # NoResult /\ studies # <<>>
        /\ ~_score_sample_size(studies).raised) =>
        LET outcome == freshness_result.outcome
            values == freshness_result.source_freshness
            clamped == [s \in Sources |-> Max(0, Min(values[s], 100))]
            total == SumSeq([i \in 1..2 |->
                        clamped[IF i = 1 THEN "pubmed" ELSE "semantic_scholar"]])
            base == _score_recency(studies, clock_year)
        IN  /\ outcome.status = "returned"
            /\ outcome.factors.recency =
                  Round1(7 * base * Cardinality(Sources) + 3000 * total,
                         1000 * Cardinality(Sources))

\* a well-formed study: its sample size, when known, is a count of
\* participants, so not negative
WellFormed(list) ==
    \A i \in 1..Len(list) :
        list[i].sample_size # None => Val(list[i].sample_size) >= 0

\* the sum of the sample sizes that are known
KnownSizes(list) ==
    SumSeq([i \in 1..Len(list) |->
               IF list[i].sample_size = None THEN 0
               ELSE Val(list[i].sample_size)])

\* C19: for every non-empty list of well-formed studies, with any subset of
\* the optional fields absent, the call returns, and a factor whose inputs
\* are all absent takes its neutral default: sample_size 45.0 when the known
\* sample sizes sum to 0, consistency 55.0 when no study has a non-MIXED
\* effect direction, replication 40.0 when there are no institutions,
\* recency 45.0 when no year is known.
C19_NeutralDefaults ==
    (Called /\ studies # <<>> /\ WellFormed(studies)) =>
        /\ Returned
        /\ KnownSizes(studies) = 0 => result.factors.sample_size = 450
        /\ (\A i \in 1..Len(studies) :
                studies[i].effect_direction \in {None, Some("MIXED")})
              => result.factors.consistency = 550
        /\ (\A i \in 1..Len(studies) : studies[i].authors_institutions = <<>>)
              => result.factors.replication = 400
        /\ (\A i \in 1..Len(studies) : studies[i].year = None)
              => result.factors.recency = 450

\* a scored list of several studies none of which carries a sample size, a
\* direction, an institution or a year
C19_Witness ==
    /\ Returned
    /\ Len(studies) >= 2
    /\ \A i \in 1..Len(studies) :
          /\ studies[i].sample_size = None
          /\ studies[i].effect_direction = None
          /\ studies[i].authors_institutions = <<>>
          /\ studies[i].year = None
    /\ result.factors.sample_size = 450
    /\ result.factors.consistency = 550
    /\ result.factors.replication = 400
    /\ result.factors.recency = 450

\* the study types of a list, in order
Types(list) == [i \in 1..Len(list) |-> list[i].study_type]

\* the types that have an entry in the weight table
KnownTypes ==
    {"META_ANALYSIS", "SYSTEMATIC_REVIEW", "RCT", "CONTROLLED_TRIAL", "COHORT",
     "CASE_CONTROL", "CROSS_SECTIONAL", "CASE_REPORT", "REVIEW", "ANIMAL",
     "IN_VITRO", "OTHER"}

\* min((mean type weight / 5.0) x 100 + min(15, 3 x metas), 100) of a
\* sequence of types, rounded to tenths; an unknown type weighs 2.0
QualityOfTypes(types) ==
    LET n == Len(types)
        weight(t) == IF t \in KnownTypes THEN STUDY_TYPE_WEIGHTS(t) ELSE 20
        total == SumSeq([i \in 1..n |-> weight(types[i])])
        metas == Cardinality({i \in 1..n : types[i] = "META_ANALYSIS"})
        bonus == Min(150, 30 * metas)
    IN  Min(Round1(20 * total + n * bonus, n), 1000)

\* the list with every field but the study type left out
TypesOnly(list) ==
    [i \in 1..Len(list) |->
        StudyInput(list[i].study_type, None, None, None, None, <<>>)]

\* the list is one META_ANALYSIS, one IN_VITRO and one CASE_REPORT
MetaVitroCase(list) ==
    /\ Len(list) = 3
    /\ \A t \in {"META_ANALYSIS", "IN_VITRO", "CASE_REPORT"} :
          \E i \in 1..3 : list[i].study_type = t

\* C20: study_quality depends only on the multiset of study types and is
\* min((mean type weight / 5.0) x 100 + min(15, 3 x number of
\* META_ANALYSIS studies), 100), an unknown type weighing 2.0; so a list of
\* only RCT studies scores 80, at least as much as a list of one
\* META_ANALYSIS, one IN_VITRO and one CASE_REPORT, whatever the other
\* fields of the studies.
C20_StudyQualityFromTypes ==
    (Returned /\ studies # <<>>) =>
        LET quality == result.factors.study_quality
        IN  /\ quality = QualityOfTypes(Types(studies))
            /\ quality = StudyQuality(TypesOnly(studies))
            /\ (\A i \in 1..Len(studies) : studies[i].study_type = "RCT")
                  => /\ quality = 800
                     /\ quality >= QualityOfTypes(
                            <<"META_ANALYSIS", "IN_VITRO", "CASE_REPORT">>)
            /\ MetaVitroCase(studies) => quality <= 800

\* the list of one META_ANALYSIS, one IN_VITRO and one CASE_REPORT, with
\* sample sizes, years and directions filled in, was scored below 80
C20_Witness ==
    /\ Returned
    /\ MetaVitroCase(studies)
    /\ \E i \in 1..3 : studies[i].sample_size # None
    /\ result.factors.study_quality < 800
    /\ result.factors.study_quality > 0

\* the recency factor as returned: round(_score_recency, 1)
Recency(list, year_now) == Round1(_score_recency(list, year_now), 100)

\* by how many years the studies of the list compared with are older
YearShifts == {0, 3}
LongAgo == 20

\* the list with study i published shift[i] years earlier
Older(list, shift) ==
    [i \in 1..Len(list) |->
        [list[i] EXCEPT !.year = Some(Val(list[i].year) - shift[i])]]

\* every study of the list is at most / more than `age` years old
AllWithin(list, now, age) ==
    \A i \in 1..Len(list) : now - Val(list[i].year) <= age
AllOlderThan(list, now, age) ==
    \A i \in 1..Len(list) : now - Val(list[i].year) > age

\* C21: recency is monotone in publication year.  When every study of the
\* scored list has a known year, every list of the same length whose
\* studies are, position by position, no more recent gets no higher a
\* recency; and a list whose studies are all from the last 3 years gets a
\* strictly higher recency than one whose studies are all more than 15
\* years old.
C21_RecencyMonotoneInYear ==
    (Returned /\ studies # <<>> /\ Dated(studies) = 1..Len(studies)) =>
        /\ \A shift \in [1..Len(studies) -> YearShifts] :
              LET older == Older(studies, shift)
              IN  Dated(older) = 1..Len(older) =>
                      Recency(older, current_year) <= result.factors.recency
        /\ LET old == Older(studies, [i \in 1..Len(studies) |-> LongAgo])
           IN  (AllWithin(studies, current_year, 3)
                    /\ AllOlderThan(old, current_year, 15)) =>
                   result.factors.recency > Recency(old, current_year)
        /\ LET new == Older(studies, [i \in 1..Len(studies) |-> -(LongAgo + 5)])
           IN  (AllOlderThan(studies, current_year, 15)
                    /\ AllWithin(new, current_year, 3)) =>
                   result.factors.recency < Recency(new, current_year)

\* a scored list of dated studies on both sides of the 3- and 5-year
\* marks, so that moving a study back changes the factor
C21_Witness ==
    /\ Returned
    /\ Len(studies) >= 3
    /\ Dated(studies) = 1..Len(studies)
    /\ \E i \in 1..Len(studies) : current_year - Val(studies[i].year) \in 0..3
    /\ \E i \in 1..Len(studies) : current_year - Val(studies[i].year) \in 4..5
    /\ \E shift \in [1..Len(studies) -> YearShifts] :
          Recency(Older(studies, shift), current_year) < result.factors.recency

\* the level decision rule applied to a composite given in tenths
LevelOfRounded(composite, list) ==
    LET metas == CountType(list, "META_ANALYSIS")
        rcts == CountType(list, "RCT")
    IN  IF composite >= 750 /\ metas >= 1 /\ rcts >= 3 THEN "A"
        ELSE IF composite >= 500 /\ (rcts >= 1 \/ metas >= 1) THEN "B"
        ELSE IF composite >= 250 THEN "C"
        ELSE "D"

\* C23 (as claimed): the level returned is the one the decision rule gives
\* for the composite returned in the same result, which is rounded to one
\* decimal, and the study list.
C23_LevelMatchesReturnedComposite ==
    (Returned /\ studies # <<>>) =>
        result.evidence_level = LevelOfRounded(result.composite, studies)

-----------------------------------------------------------------------------
(* Claims about normalize_title, checked under TitleSpec *)

\* the title with its punctuation taken out, in lower case, its runs of
\* whitespace collapsed and its ends trimmed
Canonical(title) ==
    Strip(CollapseWhitespace(
        Filter(Lower(title), TitleChars \cup Whitespace)))

\* no blank at either end and no two blanks in a row
SingleSpaced(s) ==
    /\ s # <<>> => (s[1] # " " /\ s[Len(s)] # " ")
    /\ \A i \in 1..(Len(s) - 1) : ~(s[i] = " " /\ s[i + 1] = " ")

\* C30 (as claimed): the output of normalize_title has only characters of
\* [a-z0-9 ], no leading or trailing space and no two consecutive spaces;
\* normalize_title is idempotent; and a title gets the same title key as
\* any title that differs from it only in punctuation, letter case and
\* whitespace, for the same year.
C30_NormalizedTitleIsCanonical ==
    (cand_key # None /\ Val(cand_key)[1] = "title") =>
        LET normalized == normalize_title(cand.title)
            plain == Canonical(Val(cand.title))
        IN  /\ ToSet(normalized) \subseteq TitleChars
            /\ SingleSpaced(normalized)
            /\ normalize_title(Some(normalized)) = normalized
            /\ plain # <<>> =>
                  make_study_dedup_key([cand EXCEPT !.title = Some(plain)],
                                       uuid_count + 1) = Val(cand_key)

-----------------------------------------------------------------------------
(* Claims about update_phases, checked under PhaseSpec *)

\* the position of a persisted phase in Preclinical < Phase I < Phase II <
\* Phase III < Approved; below them all when it is none of these
RankOfPhase(phase) ==
    IF phase = None THEN -1
    ELSE CASE Val(phase) = "Preclinical" -> 0
           [] Val(phase) = "Phase I"     -> 1
           [] Val(phase) = "Phase II"    -> 2
           [] Val(phase) = "Phase III"   -> 3
           [] Val(phase) = "Approved"    -> 4
           [] OTHER                      -> -1

\* the labels of the phases of the trials the registry lists as active
ListedPhases ==
    UNION {{PHASE_MAP(ct_response[i].phases[j]) :
               j \in 1..Len(ct_response[i].phases)} \ {None} :
           i \in {i \in 1..Len(ct_response) :
                     ct_response[i].status \in ACTIVE_STATUSES}}

\* C27: the rank of the persisted clinicalPhase never decreases, and the
\* phase is left as it is by a run when no listed trial has a strictly
\* higher rank, and by a dry run.
C27_PhaseOnlyUpgraded ==
    [][/\ RankOfPhase(clinicalPhase') >= RankOfPhase(clinicalPhase)
       /\ (\A phase \in ListedPhases :
               RankOfPhase(phase) <= RankOfPhase(clinicalPhase))
             => clinicalPhase' = clinicalPhase
       /\ (phase_result'.status = "done" /\ phase_result'.dry_run
               /\ phase_result' # phase_result)
             => clinicalPhase' = clinicalPhase]_phaseVars

\* a run found only trials of a lower phase than the persisted one, which
\* an earlier run had raised, and left it alone
C27_Witness ==
    /\ phase_result.status = "done"
    /\ ~phase_result.dry_run
    /\ phase_result.action = "no change"
    /\ phase_result.found # "None"
    /\ clinicalPhase # None
    /\ phase_rank(phase_result.found) < phase_rank(Val(clinicalPhase))
    /\ Val(clinicalPhase) = "Approved"

-----------------------------------------------------------------------------
(* Claims about the runs of ingest_compound, checked under Spec.  log holds  *)
(* what the sources returned in the run (stream) and what upsert_studies    *)
(* committed in it.                                                         *)

\* the position in the stream of the first candidate of a key
FirstSeen(key) ==
    CHOOSE i \in 1..Len(log.stream) :
        /\ log.stream[i].key = key
        /\ \A j \in 1..(i - 1) : log.stream[j].key # key

\* C22: after any prefix of the PubMed and Semantic Scholar streams of a
\* run, no two collected entries have the same dedup key, seen_ids is the
\* set of the keys of the collected entries, and the entry of each key is
\* the first candidate seen with it (a PubMed candidate is not replaced by
\* a later Semantic Scholar one); the scored study_count is the number of
\* distinct keys.
C22_FirstCandidateOfEachKeyKept ==
    /\ pc \in {"pubmed", "s2"} =>
          /\ Len(all_keys) = Len(all_studies)
          /\ \A i, j \in 1..Len(all_keys) : i # j => all_keys[i] # all_keys[j]
          /\ seen_ids = ToSet(all_keys)
          /\ seen_ids = {log.stream[i].key : i \in 1..Len(log.stream)}
          /\ \A i \in 1..Len(all_studies) :
                all_studies[i] = log.stream[FirstSeen(all_keys[i])].candidate
          /\ \A i, j \in 1..Len(all_keys) :
                i < j => FirstSeen(all_keys[i]) < FirstSeen(all_keys[j])
    /\ pc = "write" =>
          /\ Returned
          /\ result.study_count = Cardinality(seen_ids)
          /\ result.study_count = Len(all_studies)

\* a Semantic Scholar paper came with the key of a PubMed article already
\* collected, and was dropped
C22_Witness ==
    /\ pc = "s2"
    /\ Len(log.stream) > Len(all_studies)
    /\ \E i, j \in 1..Len(log.stream) :
          /\ i < j
          /\ log.stream[i].key = log.stream[j].key
          /\ log.stream[i].candidate.source = "pubmed"
          /\ log.stream[j].candidate.source = "semantic_scholar"

\* the Study rows linked to the compound whose studyType is META_ANALYSIS
LinkedMetaAnalyses ==
    {id \in db_links : db_studies[id].studyType = "META_ANALYSIS"}

\* C24: after any sequence of successful non-dry runs, the persisted
\* studyCount is the number of Study rows linked to the compound and the
\* persisted metaAnalysisCount the number of linked META_ANALYSIS rows.
C24_PersistedCountsMatchLinkedRows ==
    (/\ pc = "idle"
     /\ log.clean
     /\ db_compound.studyCount # None) =>
        /\ Val(db_compound.studyCount) = Cardinality(db_links)
        /\ Val(db_compound.metaAnalysisCount) = Cardinality(LinkedMetaAnalyses)

\* C25: when a non-dry run is repeated with the sources returning the
\* candidates of the previous run, all of whose upserts were committed, and
\* no other compound was ingested in between, the second run inserts no
\* Study row and creates no CompoundStudy link.  Checked under RerunSpec,
\* where the Study table also holds the studies of other compounds.
C25_SecondRunInsertsAndLinksNothing ==
    (/\ pc = "write"
     /\ ~dry_run
     /\ ~log.failed
     /\ log.prev_studies = Some(all_studies)) =>
        /\ db_result.inserted = 0
        /\ db_result.linked = 0

\* C26: in the write phase of a run, the counts upsert_studies has so far
\* (inserted, updated, linked) are the numbers of Study rows inserted, Study
\* rows updated and CompoundStudy rows created in transactions that were
\* committed; a study whose upsert was rolled back is in none of them.
C26_CountsAreOfCommittedUpserts ==
    (pc = "write" /\ ~dry_run) => db_result = log.committed

\* a step in which a Semantic Scholar paper is turned into a candidate
S2PaperRead ==
    /\ Len(log'.stream) = Len(log.stream) + 1
    /\ log'.stream[Len(log'.stream)].candidate.source = "semantic_scholar"

\* C28: s2.search is attempted at most twice for a query, and a second time
\* only after a first attempt that failed with an error mentioning 429; the
\* papers of a query are read only when an attempt returned them, so a
\* query whose first attempt failed otherwise, or whose second attempt
\* failed, adds no candidate; after a failed query the run is still in its
\* search loop, the next query can be searched, and what follows is the
\* first attempt of another query or the scoring of the studies collected,
\* which opens the write phase.
C28_SearchRetriedOnceOn429 ==
    /\ [](/\ s2_query.attempts <= 2
          /\ s2_query.attempts = 2 => s2_query.first_error = "429"
          /\ s2_query.outcome = "retry" =>
                s2_query.attempts = 1 /\ s2_query.first_error = "429"
          /\ s2_query.outcome = "failed" =>
                pc = "s2" /\ ENABLED S2Search("none"))
    /\ [][/\ S2PaperRead =>
                s2_query.outcome = "papers" /\ s2_query' = s2_query
          /\ s2_query'.attempts = 2 => s2_query.attempts \in {1, 2}
          /\ s2_query.outcome = "failed" =>
                \/ /\ pc' = "s2"
                   /\ s2_query'.attempts = 1
                   /\ UNCHANGED <<all_studies, seen_ids>>
                \/ /\ pc' = "write"
                   /\ UNCHANGED <<all_studies, seen_ids>>
                   /\ result'.status = "returned"
                   /\ result'.study_count = Len(all_studies)
                \/ /\ pc' = "idle"
                   /\ ~dry_run
                   /\ ~log'.clean]_vars

\* the second attempt of a query, made after a 429, returned papers and one
\* of them was collected
C28_Witness ==
    /\ pc = "s2"
    /\ s2_query = [attempts |-> 2, first_error |-> "429", outcome |-> "papers"]
    /\ log.stream # <<>>
    /\ log.stream[Len(log.stream)].candidate.source = "semantic_scholar"
    /\ all_studies # <<>>

\* C29: in a dry run no step changes the Compound row, the Study table or
\* the CompoundStudy links, and the counts of upsert_studies stay
\* inserted = updated = linked = 0.
C29_DryRunWritesNothing ==
    [][(dry_run /\ pc # "idle") =>
          /\ UNCHANGED <<db_compound, db_studies, db_links>>
          /\ db_result' = ZeroCounts
          /\ log'.committed = ZeroCounts]_vars

\* a dry run has scored its studies and gone through all of them in
\* upsert_studies
C29_Witness ==
    /\ dry_run
    /\ pc = "write"
    /\ Len(all_studies) >= 2
    /\ next_study > Len(all_studies)
    /\ Returned
    /\ db_compound.studyCount # Some(result.study_count)
    /\ db_result = ZeroCounts

=============================================================================
